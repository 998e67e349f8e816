------------------------------ MODULE JobService ------------------------------
(***************************************************************************)
(* What the agent promises of its generation jobs, without processes,      *)
(* events or memory: one server that takes those who ask in the order in   *)
(* which they asked, each job at most once, a result that is given by the  *)
(* turn of the job and stands, and a withdrawal that keeps it from being   *)
(* given.  The operator, who closes the agent or frees its memory, takes   *)
(* a turn as jobs do.                                                      *)
(***************************************************************************)
EXTENDS Sequences

CONSTANTS Jobs, Commands, Operator, None

VARIABLES
  result,      \* job -> "none", "open", "cancelled", "completed" or "failed"
  command,     \* job -> the command_id it was submitted for
  order,       \* who waits for the server, first come first served
  server,      \* whose turn it is, or None
  withdrawn    \* the jobs that get no result any more

vars == <<result, command, order, server, withdrawn>>

Init ==
  /\ result = [j \in Jobs |-> "none"]
  /\ command = [j \in Jobs |-> None]
  /\ order = <<>> /\ server = None /\ withdrawn = {}

SetResult(j, r) == result' = [result EXCEPT ![j] = r]

\* A command_id has one job, for life.
Submit(j, c) ==
  /\ result[j] = "none" /\ \A k \in Jobs : command[k] # c
  /\ command' = [command EXCEPT ![j] = c]
  /\ SetResult(j, "open")
  /\ order' = Append(order, j)
  /\ UNCHANGED <<server, withdrawn>>

Withdraw(j) ==
  /\ result[j] = "open"
  /\ SetResult(j, "cancelled")
  /\ withdrawn' = withdrawn \cup {j}
  /\ UNCHANGED <<command, order, server>>

\* At a shutdown the jobs that are not settled are withdrawn without a word.
Abandon(S) ==
  /\ \A j \in S : result[j] \in {"open", "cancelled"}
  /\ withdrawn' = withdrawn \cup S
  /\ UNCHANGED <<result, command, order, server>>

\* A late sign of life of a withdrawn job that still has its turn.
Reopen(j) ==
  /\ server = j /\ j \in withdrawn /\ result[j] = "cancelled"
  /\ SetResult(j, "open")
  /\ UNCHANGED <<command, order, server, withdrawn>>

TakesTurn(who) == server = None /\ order # <<>> /\ Head(order) = who /\ order' = Tail(order)

Serve(j) ==
  /\ TakesTurn(j) /\ j \notin withdrawn /\ result[j] = "open"
  /\ server' = j
  /\ UNCHANGED <<result, command, withdrawn>>

Skip(j) ==
  /\ TakesTurn(j) /\ j \in withdrawn
  /\ UNCHANGED <<result, command, server, withdrawn>>

\* The end of a turn: it gives the result, once, unless the job was withdrawn.
Answer(j) ==
  /\ server = j /\ j \notin withdrawn /\ result[j] = "open"
  /\ \E r \in {"completed", "failed"} : SetResult(j, r)
  /\ server' = None
  /\ UNCHANGED <<command, order, withdrawn>>

Leave(j) ==
  /\ server = j /\ j \in withdrawn
  /\ server' = None
  /\ UNCHANGED <<result, command, order, withdrawn>>

OperatorAsks ==
  /\ order' = Append(order, Operator)
  /\ UNCHANGED <<result, command, server, withdrawn>>

OperatorTurn ==
  /\ TakesTurn(Operator)
  /\ server' \in {Operator, None}
  /\ UNCHANGED <<result, command, withdrawn>>

OperatorLeaves ==
  /\ server = Operator /\ server' = None
  /\ UNCHANGED <<result, command, order, withdrawn>>

\* A restart fails what was open and forgets who asked.
Restart ==
  /\ result' = [j \in Jobs |-> IF result[j] = "open" THEN "failed" ELSE result[j]]
  /\ order' = <<>> /\ server' = None /\ withdrawn' = {}
  /\ UNCHANGED command

Next ==
  \/ \E j \in Jobs : \/ \E c \in Commands : Submit(j, c)
                     \/ Withdraw(j) \/ Reopen(j)
                     \/ Serve(j) \/ Skip(j) \/ Answer(j) \/ Leave(j)
  \/ \E S \in SUBSET Jobs : Abandon(S)
  \/ OperatorAsks \/ OperatorTurn \/ OperatorLeaves
  \/ Restart

Spec == Init /\ [][Next]_vars
===============================================================================
