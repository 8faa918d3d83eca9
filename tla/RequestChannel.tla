--------------------------- MODULE RequestChannel ---------------------------
(***************************************************************************)
(* What the recoverable message transport promises to the workflow that    *)
(* sends a task to an Agent role: the task stays in the channel until it is *)
(* answered or dead-lettered, a caller's outcome is one of the answers to  *)
(* its own task, and an outcome is final.  Handling is at least once: a    *)
(* task may be answered more than once and may come back after it was      *)
(* answered.  AgentTransport is shown to implement this module.            *)
(***************************************************************************)

CONSTANTS
  Requests,         \* tasks sent to a role
  Outputs,          \* what a handler may produce
  NoOutput          \* no answer taken

VARIABLES
  sent,             \* tasks that have been published
  open,             \* tasks that the channel still has to deliver or settle
  answers,          \* answers published for each task
  buried,           \* tasks in the dead-letter stream
  outcome,          \* the answer the caller took
  ended             \* callers that wait no longer

channelVars == <<sent, open, answers, buried, outcome, ended>>

ChannelInit ==
  /\ sent = {} /\ open = {} /\ buried = {} /\ ended = {}
  /\ answers = [r \in Requests |-> {}]
  /\ outcome = [r \in Requests |-> NoOutput]

Send(r) ==
  /\ r \notin sent
  /\ sent' = sent \cup {r} /\ open' = open \cup {r}
  /\ UNCHANGED <<answers, buried, outcome, ended>>

Answer(r, c) ==
  /\ r \in sent
  /\ answers' = [answers EXCEPT ![r] = @ \cup {c}]
  /\ UNCHANGED <<sent, open, buried, outcome, ended>>

\* An answered task leaves the channel.
Settle(r) ==
  /\ r \in open /\ (answers[r] # {} \/ r \in buried)
  /\ open' = open \ {r}
  /\ UNCHANGED <<sent, answers, buried, outcome, ended>>

\* A task that cannot be handled goes to the dead-letter stream; another copy
\* of it may still be open.
Bury(r) ==
  /\ r \in sent
  /\ buried' = buried \cup {r}
  /\ open' \in {open, open \ {r}}
  /\ UNCHANGED <<sent, answers, outcome, ended>>

\* At least once: a copy of a task that was settled is delivered again.
Return(r) ==
  /\ r \in sent
  /\ open' = open \cup {r}
  /\ UNCHANGED <<sent, answers, buried, outcome, ended>>

Take(r) ==
  /\ r \in sent \ ended /\ outcome[r] = NoOutput
  /\ \E c \in answers[r] : outcome' = [outcome EXCEPT ![r] = c]
  /\ UNCHANGED <<sent, open, answers, buried, ended>>

\* The caller returns: with the answer it took, or after its deadline without.
End(r) ==
  /\ r \in sent \ ended
  /\ ended' = ended \cup {r}
  /\ UNCHANGED <<sent, open, answers, buried, outcome>>

ChannelNext ==
  \E r \in Requests :
    \/ Send(r) \/ Settle(r) \/ Bury(r) \/ Return(r) \/ Take(r) \/ End(r)
    \/ \E c \in Outputs : Answer(r, c)

ChannelSpec == ChannelInit /\ [][ChannelNext]_channelVars

=============================================================================
