------------------------------ MODULE Requests ------------------------------
(***************************************************************************)
(* The concurrency of the API and of the workers as the modules of a       *)
(* composition share it: a few goroutines (Handlers), each running one     *)
(* call at a time, statement by statement.  `call` holds, for each of      *)
(* them, the statement it is about to execute and the values it read       *)
(* before.  A handler of a single statement is one step and occupies no    *)
(* goroutine.                                                              *)
(*                                                                         *)
(* Bound: a behaviour makes the calls that one of the Budgets grants, so   *)
(* many of each kind; which one is chosen at the start.                    *)
(***************************************************************************)
EXTENDS Naturals, FiniteSets

CONSTANTS Handlers,
          Kinds,    \* kinds of calls, and "fault"
          Budgets   \* bound: how many of each kind

ASSUME RequestsAssumption ==
  /\ Handlers # {} /\ IsFiniteSet(Handlers)
  /\ "fault" \in Kinds /\ Budgets \subseteq [Kinds -> Nat]

VARIABLES call, left

requestVars == <<call, left>>

\* A table with one row more, unless its key is there; and with that row in any case.
AddRow(table, id, row) ==
  [x \in DOMAIN table \cup {id} |-> IF x \in DOMAIN table THEN table[x] ELSE row]

PutRow(table, id, row) ==
  [x \in DOMAIN table \cup {id} |-> IF x = id THEN row ELSE table[x]]

Idle == [op |-> "idle"]

At(h, op) == call[h].op = op

Count(kind) == left[kind] > 0 /\ left' = [left EXCEPT ![kind] = @ - 1]

Begin(kind, h, c) == call[h] = Idle /\ Count(kind) /\ call' = [call EXCEPT ![h] = c]

AtOnce(kind) == Count(kind) /\ UNCHANGED call

Proceed(h, c) == call' = [call EXCEPT ![h] = c] /\ UNCHANGED left

Return(h) == Proceed(h, Idle)

\* The client goes away, the context expires, the process dies or the
\* statement fails: what was committed stays, the rest never happens.
CutOff(h) ==
  /\ call[h] # Idle
  /\ Count("fault")
  /\ call' = [call EXCEPT ![h] = Idle]

RequestsInit == call = [h \in Handlers |-> Idle] /\ left \in Budgets
=============================================================================
