--------------------------- MODULE MousepadDevice ---------------------------
(***************************************************************************)
(* The input adapter of a remote device: keys are gathered and sent from an*)
(* idle source, with the modifiers, as characters or as the codes of       *)
(* special keys, and are keys again at the other end; presses and releases *)
(* of a button are counted, and two timers tell a click, a double click    *)
(* and a long press.                                                       *)
(***************************************************************************)
EXTENDS Integers, Sequences, SequencesExt

CONSTANTS
    Key,                 \* the keysyms that are typed
    ModifierKey,         \* and those of the modifiers
    Table,               \* keysym_to_unicode_tab: pairs of a keysym and a character
    Meaning,             \* pairs of a keysym and the one without the keypad
    MaxKeys,             \* bounds the keys that are typed
    MaxPresses           \* bounds the presses of a button

VARIABLES
    keys,                \* keyboard_keys
    modifiers,           \* keyboard_modifiers
    flushId,             \* keyboard_flush_id is set
    idles,               \* idle sources that will call the flush
    typed,               \* the keys that were pressed
    received,            \* the keysyms that the other end pressed for them
    pointer,             \* pointer_button, pointer_presses, pointer_releases
    doubleclick,         \* the source behind pointer_doubleclick_id is pending
    longpress,           \* the one behind pointer_longpress_id
    down,                \* the button that the user holds, or "none"
    clicks,              \* the clicks that were sent
    presses              \* the presses the user made

keyVars == <<keys, modifiers, flushId, idles, typed, received>>
pointerVars == <<pointer, doubleclick, longpress, down, clicks, presses>>
vars == <<keyVars, pointerVars>>

Released == [button |-> "none", presses |-> 0, releases |-> 0]

Init ==
    /\ keys = <<>> /\ modifiers = {} /\ flushId = FALSE /\ idles = 0
    /\ typed = <<>> /\ received = <<>>
    /\ pointer = Released /\ doubleclick = FALSE /\ longpress = FALSE
    /\ down = "none" /\ clicks = <<>> /\ presses = 0
-----------------------------------------------------------------------------
(* Keys, characters and codes                                                  *)

Latin1(x) == x \in 32..126 \cup 160..255
Direct == 2^24

(* valent_input_keysym_to_unicode(), valent_input_unicode_to_keysym(): the      *)
(* rows of the two tables are the same                                         *)
KeysymToUnicode(k) ==
    CASE Latin1(k) -> k
      [] k \div Direct = 1 -> k % Direct
      [] \E r \in Table : r[1] = k -> (CHOOSE r \in Table : r[1] = k)[2]
      [] OTHER -> 0

UnicodeToKeysym(c) ==
    CASE Latin1(c) -> c
      [] ~Latin1(c) /\ \E r \in Table : r[2] = c -> (CHOOSE r \in Table : r[2] = c)[1]
      [] OTHER -> c + Direct

(* The keymap of valent_mousepad_keycode_to_keysym(), from code 1; 0 is none    *)
Keymap ==
    <<65288, 65289, 65290, 65361, 65362, 65363, 65364, 65365, 65366, 65360, 65367, 65293,
      65535, 65307, 65301, 65300, 0, 0, 0, 0>> \o [n \in 1..12 |-> 65469 + n]

KeycodeToKeysym(n) == IF n \in DOMAIN Keymap THEN Keymap[n] ELSE 0

(* valent_mousepad_keysym_to_keycode(): the keys of the keypad, and ISO_Enter,  *)
(* have the codes of the others                                               *)
KeysymToKeycode(k) ==
    CASE k = 65417 -> 2
      [] k \in {65421, 65076} -> 12
      [] k \in 65430..65435 -> k - 65426
      [] k = 65429 -> 10
      [] k = 65436 -> 11
      [] k = 65439 -> 13
      [] k # 0 /\ \E n \in DOMAIN Keymap : Keymap[n] = k ->
            CHOOSE n \in DOMAIN Keymap : Keymap[n] = k
      [] OTHER -> 0

(* valent_input_keysym_to_modifier(): the masks of a modifier; of some there    *)
(* is none                                                                     *)
KeysymToModifier(k) ==
    CASE k \in {65513, 65514} -> {"alt"}
      [] k \in {65507, 65508} -> {"control"}
      [] k \in {65505, 65506} -> {"shift"}
      [] k \in {65515, 65516} -> {"super"}
      [] k \in {65509, 65510} -> {"lock"}
      [] k \in {65511, 65512} -> {"meta"}
      [] k \in {65517, 65518} -> {"hyper"}
      [] OTHER -> {}
-----------------------------------------------------------------------------
IsSpecial(k) == KeysymToKeycode(k) # 0

(* Mutant: the text is sent, and stays in the queue.                           *)
FlushKeep(ks) == [packet |-> SelectSeq(ks, LAMBDA k : ~IsSpecial(k)), rest |-> Tail(ks)]

(* valent_mousepad_device_keyboard_flush(), of the keys ks: the characters up  *)
(* to the first special key are one packet, a special key in front is another; *)
(* keys without a character are dropped, and so is the special key that ends a *)
(* text                                                                        *)
Flush(ks) ==
    LET first == CHOOSE n \in 0..Len(ks) :
                   /\ \A i \in 1..n : ~IsSpecial(ks[i])
                   /\ n < Len(ks) => IsSpecial(ks[n + 1])
        taken == IF first < Len(ks) THEN first + 1 ELSE first
        text == SelectSeq(SubSeq(ks, 1, first), LAMBDA k : KeysymToUnicode(k) # 0)
    IN  [packet |-> IF text # <<>> THEN text ELSE SubSeq(ks, first + 1, taken),
         rest |-> SubSeq(ks, taken + 1, Len(ks))]

(* valent_mousepad_plugin_handle_mousepad_request() of the other end, for such  *)
(* a packet                                                                   *)
Request(packet) ==
    [i \in DOMAIN packet |->
        IF IsSpecial(packet[i]) THEN KeycodeToKeysym(KeysymToKeycode(packet[i]))
        ELSE UnicodeToKeysym(KeysymToUnicode(packet[i]))]

(* The idle source ends once nothing is left                                   *)
IdleFlush ==
    /\ idles > 0
    /\ IF keys = <<>>
         THEN /\ flushId' = FALSE /\ idles' = idles - 1 /\ UNCHANGED <<keys, received>>
         ELSE /\ keys' = Flush(keys).rest
              /\ received' = received \o Request(Flush(keys).packet)
              /\ flushId' = (flushId /\ keys' # <<>>)
              /\ idles' = IF keys' = <<>> THEN idles - 1 ELSE idles
    /\ UNCHANGED <<modifiers, typed, pointerVars>>

(* valent_mousepad_device_keyboard_keysym(), when a key is pressed: with a     *)
(* modifier held the keys are sent at once                                     *)
KeyboardKeysym(k) ==
    LET with == Append(keys, k)
    IN  /\ Len(typed) < MaxKeys /\ typed' = Append(typed, k)
        /\ IF modifiers # {}
             THEN /\ keys' = Flush(with).rest
                  /\ received' = received \o Request(Flush(with).packet)
                  /\ flushId' = (flushId /\ keys' # <<>>) /\ UNCHANGED idles
             ELSE /\ keys' = with /\ UNCHANGED received
                  /\ flushId' = TRUE /\ idles' = IF flushId THEN idles ELSE idles + 1
        /\ UNCHANGED <<modifiers, pointerVars>>

(* ... and when a modifier is pressed or released                              *)
Modifier(k, state) ==
    /\ Len(typed) < MaxKeys
    /\ modifiers' = IF state THEN modifiers \cup KeysymToModifier(k)
                    ELSE modifiers \ KeysymToModifier(k)
    /\ UNCHANGED <<keys, flushId, idles, typed, received, pointerVars>>
-----------------------------------------------------------------------------
(* valent_mousepad_device_pointer_reset()                                    *)
PointerReset == pointer' = Released /\ doubleclick' = FALSE /\ longpress' = FALSE

(* valent_mousepad_device_pointer_flush(), of the counters c                  *)
PointerPacket(c) ==
    IF c.presses = 1 /\ c.releases = 1
      THEN <<[button |-> c.button, presses |-> 1]>>
    ELSE IF c.button = "primary" /\ c.presses = 2 THEN <<[button |-> "primary", presses |-> 2]>>
    ELSE <<>>

PointerFlush(c, pending) ==
    /\ clicks' = IF c.presses < c.releases THEN clicks ELSE clicks \o PointerPacket(c)
    /\ IF c.presses < c.releases \/ PointerPacket(c) # <<>>
         THEN PointerReset
         ELSE pointer' = c /\ doubleclick' = pending /\ longpress' = FALSE

(* valent_mousepad_device_pointer_button(): a primary press arms the timers    *)
Counted(button) ==
    IF pointer.button = button THEN pointer ELSE [button |-> button, presses |-> 0, releases |-> 0]

ButtonEvent(c, pending) ==
    IF c.button = "primary" /\ c.presses = 1
      THEN /\ pointer' = c /\ longpress' = (c.releases = 0)
           /\ doubleclick' = (pending \/ c.releases = 0)
           /\ UNCHANGED clicks
      ELSE PointerFlush(c, pending)

PointerPress(button) ==
    /\ down = "none" /\ presses < MaxPresses /\ presses' = presses + 1
    /\ down' = button
    /\ ButtonEvent([Counted(button) EXCEPT !.presses = @ + 1], FALSE)
    /\ UNCHANGED keyVars

PointerRelease ==
    /\ down # "none" /\ down' = "none"
    /\ ButtonEvent([Counted(down) EXCEPT !.releases = @ + 1], doubleclick)
    /\ UNCHANGED <<presses, keyVars>>

DoubleclickTimeout ==
    /\ doubleclick
    /\ clicks' = IF pointer.presses < pointer.releases THEN clicks ELSE clicks \o PointerPacket(pointer)
    /\ IF clicks' # clicks \/ pointer.presses < pointer.releases
         THEN PointerReset
         ELSE doubleclick' = FALSE /\ UNCHANGED <<pointer, longpress>>
    /\ UNCHANGED <<down, presses, keyVars>>

(* valent_mousepad_device_pointer_longpress(): nothing follows the release     *)
Longpress ==
    /\ longpress /\ PointerReset
    /\ clicks' = Append(clicks, [button |-> "primary", presses |-> 1])
    /\ UNCHANGED <<down, presses, keyVars>>

(* valent_mousepad_device_pointer_motion()                                   *)
PointerMotion ==
    /\ pointer # Released /\ PointerReset
    /\ UNCHANGED <<clicks, down, presses, keyVars>>

Next ==
    \/ IdleFlush \/ \E k \in Key : KeyboardKeysym(k)
    \/ \E k \in ModifierKey, state \in BOOLEAN : Modifier(k, state)
    \/ \E button \in {"primary", "secondary"} : PointerPress(button)
    \/ PointerRelease \/ DoubleclickTimeout \/ Longpress \/ PointerMotion

Spec == Init /\ [][Next]_vars
-----------------------------------------------------------------------------
(* Whatever the modifiers, timers and idle sources do, the keys arrive in the     *)
(* order in which they were typed, none twice and each as what it means, through  *)
(* all conversions there and back; and what waits has a source to send it.        *)
KeysAreInOrder ==
    /\ LET all == received \o keys
           IsNext(n, k) == /\ n < Len(all)
                           /\ IF n < Len(received) THEN <<k, all[n + 1]>> \in Meaning
                              ELSE k = all[n + 1]
       IN  FoldLeft(LAMBDA n, k : IF IsNext(n, k) THEN n + 1 ELSE n, 0, typed) = Len(all)
    /\ keys # <<>> => idles > 0

(* A click is sent only of presses that were made: none counts for two.            *)
ClicksAreMade == FoldLeft(LAMBDA n, c : n + c.presses, 0, clicks) <= presses

(* valent-mousepad-device.c:68 "If there are keys to be sent, they need to be sent   *)
(* first": the special key that comes after them is sent later.                     *)
KeysAreSent ==
    idles = 0 => Len(received \o keys) =
        Len(SelectSeq(typed, LAMBDA k : \E m \in Meaning : m[1] = k))
=============================================================================
