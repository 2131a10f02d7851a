------------------------------- MODULE Object -------------------------------
(***************************************************************************)
(* ValentObject: a tree of objects that are destroyed on the main thread.  *)
(* A worker thread that destroys an object, or drops the last reference to *)
(* it, leaves it in a queue for a source of the main loop, which sleeps    *)
(* while it has nothing to do.                                             *)
(***************************************************************************)
EXTENDS Integers, Sequences, SequencesExt

CONSTANTS
    Obj,                 \* the objects
    MaxRequests,         \* bounds what the worker thread asks for
    None                 \* no parent

VARIABLES
    parent,              \* parent of each object, or None
    children,            \* children of each object, in order
    destroyed,           \* the objects whose flag destroyed is set
    cancelled,           \* the objects whose cancellable was activated
    emissions,           \* how often "destroy" was emitted for each object
    finalizerQueue,      \* finalizer_queue
    pushing,             \* the worker is appending this object, or None
    tailGone,            \* the tail it appends to was popped meanwhile
    mainLoop,            \* "awake", or "asleep" in poll()
    requests             \* what the worker has asked for so far

vars == <<parent, children, destroyed, cancelled, emissions, finalizerQueue, pushing,
          tailGone, mainLoop, requests>>
treeVars == <<parent, children, destroyed, cancelled, emissions>>

Init ==
    /\ parent = [o \in Obj |-> None] /\ children = [o \in Obj |-> <<>>]
    /\ destroyed = {} /\ cancelled = {} /\ emissions = [o \in Obj |-> 0]
    /\ finalizerQueue = <<>> /\ pushing = None /\ tailGone = FALSE
    /\ mainLoop = "awake" /\ requests = 0

(* o and what is below it                                                   *)
Subtree(o) ==
    LET below[n \in 0..Cardinality(Obj)] ==
          IF n = 0 THEN {o} ELSE below[n - 1] \cup {c \in Obj : parent[c] \in below[n - 1]}
    IN  below[Cardinality(Obj)]
-----------------------------------------------------------------------------
(* Main thread.  The lock of the object is held all along                    *)

RealAdd(o, c) ==
    /\ mainLoop = "awake" /\ parent[c] = None /\ o \notin Subtree(c)
    /\ {o, c} \cap destroyed = {}
    /\ children' = [children EXCEPT ![o] = Append(@, c)]
    /\ parent' = [parent EXCEPT ![c] = o]
    /\ UNCHANGED <<destroyed, cancelled, emissions, finalizerQueue, pushing, tailGone,
                   mainLoop, requests>>

(* "destroy" is emitted: the object leaves its parent, and its children are   *)
(* destroyed with it.  An object that was destroyed and is disposed of again  *)
(* emits it again, with nothing left to do                                    *)
RealDestroy(o) ==
    LET gone == Subtree(o)
    IN  /\ cancelled' = cancelled \cup gone
        /\ destroyed' = destroyed \cup gone
        /\ emissions' = [q \in Obj |-> IF q \in gone THEN emissions[q] + 1 ELSE emissions[q]]
        /\ children' = [q \in Obj |->
             IF q \in gone THEN <<>> ELSE SelectSeq(children[q], LAMBDA c : c # o)]
        /\ parent' = [q \in Obj |-> IF q \in gone THEN None ELSE parent[q]]

Destroy(o) ==
    /\ mainLoop = "awake"
    /\ IF o \in destroyed
         THEN UNCHANGED treeVars
         ELSE RealDestroy(o)
    /\ UNCHANGED <<finalizerQueue, pushing, tailGone, mainLoop, requests>>

(* The finalizer source: its check sees the queue when poll() has returned,   *)
(* and its dispatch pops the queue without finalizer_mutex                    *)
Finalize ==
    /\ mainLoop = "awake" /\ finalizerQueue # <<>>
    /\ finalizerQueue' = Tail(finalizerQueue)
    /\ tailGone' = (tailGone \/ (pushing # None /\ Len(finalizerQueue) = 1))
    /\ RealDestroy(Head(finalizerQueue))
    /\ UNCHANGED <<pushing, mainLoop, requests>>

(* The loop has nothing to dispatch.  The source has no prepare function, so  *)
(* that an object which is queued after the last check does not matter        *)
Sleep ==
    /\ mainLoop = "awake" /\ finalizerQueue = <<>>
    /\ mainLoop' = "asleep"
    /\ UNCHANGED <<treeVars, finalizerQueue, pushing, tailGone, requests>>

(* Some other source is ready, or becomes it                                 *)
OtherEvent ==
    /\ mainLoop = "asleep" /\ mainLoop' = "awake"
    /\ UNCHANGED <<treeVars, finalizerQueue, pushing, tailGone, requests>>
-----------------------------------------------------------------------------
(* Worker thread                                                            *)

PushBegins(o) ==
    /\ pushing = None /\ requests < MaxRequests
    /\ requests' = requests + 1
    /\ pushing' = o /\ tailGone' = FALSE
    /\ UNCHANGED <<treeVars, finalizerQueue, mainLoop>>

(* Appended to a tail that was freed, the object may not be in the queue      *)
Pushed ==
    /\ pushing # None /\ pushing' = None /\ tailGone' = FALSE
    /\ finalizerQueue' \in {Append(finalizerQueue, pushing)} \cup
         (IF tailGone THEN {finalizerQueue} ELSE {})

(* valent_object_destroy(): nothing wakes the main loop                      *)
DestroyInThread == Pushed /\ UNCHANGED <<treeVars, mainLoop, requests>>

(* valent_object_dispose() of the last reference: g_main_context_wakeup()     *)
DisposeInThread == Pushed /\ mainLoop' = "awake" /\ UNCHANGED <<treeVars, requests>>

Next ==
    \/ \E o, c \in Obj : RealAdd(o, c)
    \/ \E o \in Obj : Destroy(o) \/ PushBegins(o)
    \/ Finalize \/ Sleep \/ OtherEvent
    \/ DestroyInThread \/ DisposeInThread

(* Both threads run; other events need not come                              *)
Fairness == WF_vars(Finalize) /\ WF_vars(DestroyInThread \/ DisposeInThread)

Spec == Init /\ [][Next]_vars
FairSpec == Spec /\ Fairness
-----------------------------------------------------------------------------
TypeOK ==
    /\ parent \in [Obj -> Obj \cup {None}] /\ children \in [Obj -> Seq(Obj)]
    /\ destroyed \subseteq Obj /\ cancelled \subseteq Obj /\ emissions \in [Obj -> Nat]
    /\ finalizerQueue \in Seq(Obj) /\ pushing \in Obj \cup {None} /\ tailGone \in BOOLEAN
    /\ mainLoop \in {"awake", "asleep"} /\ requests \in 0..MaxRequests

(* A parent knows its children and they know it; an object that was destroyed, *)
(* from whatever thread, is out of the tree, keeps no child alive, and has     *)
(* activated its cancellable.                                                  *)
TreeAgrees ==
    /\ \A o \in Obj : IsInjective(children[o]) /\ ToSet(children[o]) = {c \in Obj : parent[c] = o}
    /\ \A o \in destroyed : parent[o] = None /\ children[o] = <<>> /\ o \in cancelled

(* valent-object.c:533 "If called from another thread, an idle source will be  *)
(* added to invoke it on the main thread": what a thread destroys is destroyed. *)
QueuedIsDestroyed == \A o \in Obj : Contains(finalizerQueue, o) ~> o \in destroyed
=============================================================================
