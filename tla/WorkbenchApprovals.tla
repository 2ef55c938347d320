------------------------- MODULE WorkbenchApprovals -------------------------
(***************************************************************************)
(* One tool call's approval: created by the runtime, decided by the owner, *)
(* consumed by the runtime that executes the command and completed.  Every *)
(* mutation is one UPDATE with the version its sender has read; replies    *)
(* may be lost and requests are repeated.                                  *)
(***************************************************************************)
EXTENDS Integers

CONSTANTS
  Owners,       \* the owner's sessions
  Executors,    \* the runtime's workers; an executor's id is its execution_id
  Hashes, ArgsHash,   \* args hashes, and the one the approval was asked for
  NoExecutor

ASSUME HashAssumption == ArgsHash \in Hashes
ASSUME NoExecutorAssumption == NoExecutor \notin Executors

VARIABLES
  version,      \* 0 for no row
  decision,     \* "none" for NULL
  execution, executor,   \* execution_state, execution_id
  lapsed,       \* expires_at has passed
  read,         \* the version each owner and executor has read
  ran,          \* executors told to run, with the args they run
  told          \* the decisions owners were told they made

approvalVars == <<version, decision, execution, executor, lapsed, read, ran, told>>
Actors == Owners \cup Executors

ApprovalsInit ==
  /\ version = 0 /\ decision = "none"
  /\ execution = "pending" /\ executor = NoExecutor
  /\ lapsed = FALSE
  /\ read = [a \in Actors |-> 0]
  /\ ran = {} /\ told = {}

\* ON CONFLICT DO NOTHING: creating again changes nothing.
CreateApproval == /\ version = 0 /\ version' = 1
                  /\ UNCHANGED <<decision, execution, executor, lapsed, read, ran, told>>

Expire == /\ ~ lapsed /\ lapsed' = TRUE
          /\ UNCHANGED <<version, decision, execution, executor, read, ran, told>>

\* ListApprovals
Read(a) == /\ version > 0 /\ read' = [read EXCEPT ![a] = version]
           /\ UNCHANGED <<version, decision, execution, executor, lapsed, ran, told>>

Current(a) == version > 0 /\ read[a] = version
Bump == version' = version + 1

DecideApproval(o, d, answered) ==
  /\ Current(o) /\ decision = "none" /\ ~ lapsed
  /\ decision' = d /\ Bump
  /\ told' = IF answered THEN told \cup {d} ELSE told
  /\ UNCHANGED <<execution, executor, lapsed, read, ran>>

\* Mutant: what was consumed may be consumed again.
ConsumeAgain(e, h, answered) ==
  /\ Current(e) /\ decision = "approved" /\ ~ lapsed /\ h = ArgsHash
  /\ execution' = "consumed" /\ executor' = e /\ Bump
  /\ ran' = IF answered THEN ran \cup {<<e, h>>} ELSE ran
  /\ UNCHANGED <<decision, lapsed, read, told>>

ConsumeApproval(e, h, answered) ==
  /\ Current(e) /\ decision = "approved" /\ ~ lapsed /\ h = ArgsHash
  /\ execution = "pending"
  /\ execution' = "consumed" /\ executor' = e /\ Bump
  /\ ran' = IF answered THEN ran \cup {<<e, h>>} ELSE ran
  /\ UNCHANGED <<decision, lapsed, read, told>>

CompleteApprovalExecution(e, outcome) ==
  /\ Current(e) /\ execution = "consumed" /\ executor = e
  /\ execution' = outcome /\ Bump
  /\ UNCHANGED <<decision, executor, lapsed, read, ran, told>>

ApprovalsNext ==
  \/ CreateApproval \/ Expire
  \/ \E a \in Actors : Read(a)
  \/ \E o \in Owners, d \in {"approved", "rejected"}, b \in BOOLEAN : DecideApproval(o, d, b)
  \/ \E e \in Executors, h \in Hashes, b \in BOOLEAN : ConsumeApproval(e, h, b)
  \/ \E e \in Executors, outcome \in {"executed", "failed"} : CompleteApprovalExecution(e, outcome)

ApprovalsSpec == ApprovalsInit /\ [][ApprovalsNext]_approvalVars

-----------------------------------------------------------------------------
(***************************************************************************)
(* Properties.                                                             *)
(***************************************************************************)
\* Every variable has its type, and an execution has its executor.
ApprovalsTypeOK ==
  /\ version \in Nat /\ decision \in {"none", "approved", "rejected"}
  /\ execution \in {"pending", "consumed", "executed", "failed"}
  /\ executor \in Executors \cup {NoExecutor}
  /\ execution = "pending" <=> executor = NoExecutor
  /\ lapsed \in BOOLEAN /\ read \in [Actors -> Nat]
  /\ ran \subseteq Executors \X Hashes /\ told \subseteq {"approved", "rejected"}

\* An approved command is run at most once, by the worker the row names, and with
\* the arguments approved, however many workers ask and replies are lost.
RunsOncePerApproval ==
  \A x \in ran : /\ decision = "approved"
                 /\ x = <<executor, ArgsHash>> /\ execution # "pending"

\* What an owner was told of a decision is what the approval says ever after.
DecisionKept == told \subseteq {decision}

\* What an approval promises the owners and the workers, together.
ApprovalsInv == ApprovalsTypeOK /\ RunsOncePerApproval /\ DecisionKept
=============================================================================
