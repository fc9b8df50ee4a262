---------------------------- MODULE BehaviourLog ----------------------------
(***************************************************************************)
(* What the buffered behaviour log promises its callers, whatever channel, *)
(* batches and goroutines it is made of: an entry that was logged waits    *)
(* until it is given to the database, once, in a statement of at most      *)
(* BatchSize entries; an entry is given up only while BufSize others wait; *)
(* and Close returns when everything logged before it has been dealt with, *)
(* after which the database is left alone.                                 *)
(***************************************************************************)
EXTENDS Naturals, FiniteSets

CONSTANTS Entries, BufSize, BatchSize

VARIABLES
    waiting,  \* logged, and not yet given to the database
    tried,    \* given to the database
    lost,     \* given up at the door
    phase,    \* "serving", "closing", "draining", "exited"
    due       \* what had been logged when Close was called

logVars == <<waiting, tried, lost, phase, due>>

Known == waiting \cup tried \cup lost

LogInit ==
    /\ waiting = {} /\ tried = {} /\ lost = {}
    /\ phase = "serving" /\ due = {}

Accept(e) ==
    /\ phase # "exited" /\ e \notin Known
    /\ waiting' = waiting \cup {e}
    /\ UNCHANGED <<tried, lost, phase, due>>

GiveUp(e) ==
    /\ phase # "exited" /\ e \notin Known
    /\ Cardinality(waiting) >= BufSize
    /\ lost' = lost \cup {e}
    /\ UNCHANGED <<waiting, tried, phase, due>>

Try(S) ==
    /\ phase \in {"serving", "closing"}
    /\ S # {} /\ Cardinality(S) <= BatchSize
    /\ waiting' = waiting \ S /\ tried' = tried \cup S
    /\ UNCHANGED <<lost, phase, due>>

BeginClose ==
    /\ phase = "serving" /\ phase' = "closing"
    /\ due' = Known
    /\ UNCHANGED <<waiting, tried, lost>>

EndClose ==
    /\ phase = "closing" /\ phase' = "draining"
    /\ due \cap waiting = {}
    /\ UNCHANGED <<waiting, tried, lost, due>>

Leave ==
    /\ phase = "draining" /\ phase' = "exited"
    /\ UNCHANGED <<waiting, tried, lost, due>>

LogNext ==
    \/ \E e \in Entries : Accept(e) \/ GiveUp(e)
    \/ \E S \in SUBSET waiting : Try(S)
    \/ BeginClose \/ EndClose \/ Leave

LogSpec == LogInit /\ [][LogNext]_logVars
=============================================================================
