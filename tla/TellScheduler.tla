---------------------------- MODULE TellScheduler ----------------------------
(***************************************************************************)
(* Which panes a tell tick serves (Scheduler::select in                    *)
(* app/kasaterm/src/tell_delivery.rs): at most Workers of the panes that   *)
(* have a message waiting and no delivery under way, in the order of their *)
(* names, starting after the pane that was chosen last.                    *)
(***************************************************************************)
EXTENDS Integers, FiniteSets

CONSTANTS Names,   \* pane names, by their order
          Workers  \* WORKERS

ASSUME SchedulerAssumption ==
  Names \subseteq Nat \ {0} /\ IsFiniteSet(Names) /\ Workers \in Nat \ {0}

VARIABLES waiting,   \* panes with a pending message, as the ledger reports them
          serving,   \* Scheduler.active
          cursor,    \* Scheduler.cursor, 0 before the first choice
          passed     \* ticks that passed a pane over since it could be served (history)

schedulerVars == <<waiting, serving, cursor, passed>>

SchedulerTypeOK ==
  /\ waiting \subseteq Names /\ serving \subseteq Names
  /\ cursor \in Names \cup {0}
  /\ passed \in [Names -> Nat]

SchedulerInit ==
  /\ waiting = {} /\ serving = {} /\ cursor = 0
  /\ passed = [p \in Names |-> 0]

Servable == waiting \ serving

BeforeFromTop(p, q) == p < q    \* faulty: every tick starts at the first pane

(* p comes before q in the rotated order. *)
Before(p, q) ==
  IF (p > cursor) = (q > cursor) THEN p < q ELSE p > cursor

NextServed == {p \in Servable : Cardinality({q \in Servable : Before(q, p)}) < Workers}

(* A tick.  Every pane it takes has its one delivery under way.             *)
Serve ==
  /\ Servable # {}
  /\ serving' = serving \cup NextServed
  /\ cursor' = CHOOSE p \in NextServed : \A q \in NextServed : q = p \/ Before(q, p)
  /\ passed' = [p \in Names |-> IF p \in Servable \ NextServed THEN passed[p] + 1 ELSE 0]
  /\ UNCHANGED waiting

(* release(): the delivery of a pane is over; messages may be left.         *)
Release(p) ==
  /\ p \in serving
  /\ serving' = serving \ {p}
  /\ passed' = [passed EXCEPT ![p] = 0]
  /\ UNCHANGED <<waiting, cursor>>

(* Messages come in; they are delivered, expire, or wait for a dispatch.    *)
Arrive(p) ==
  /\ p \notin waiting
  /\ waiting' = waiting \cup {p}
  /\ UNCHANGED <<serving, cursor, passed>>

Depart(p) ==
  /\ p \in waiting
  /\ waiting' = waiting \ {p}
  /\ passed' = [passed EXCEPT ![p] = 0]
  /\ UNCHANGED <<serving, cursor>>

SchedulerNext == Serve \/ \E p \in Names : Release(p) \/ Arrive(p) \/ Depart(p)

SchedulerSpec == SchedulerInit /\ [][SchedulerNext]_schedulerVars

-----------------------------------------------------------------------------
(* Properties *)

(* A tick that passes a pane over serves Workers others, none of them twice  *)
(* before it is that pane's turn, however often their messages return.      *)
BoundedOvertaking == \A p \in Names : passed[p] * Workers < Cardinality(Names)
=============================================================================
