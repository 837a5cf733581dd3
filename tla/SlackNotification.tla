------------------------- MODULE SlackNotification -------------------------
(***************************************************************************)
(* send_slack_notification (notifications/slack.py): one message about a   *)
(* finished run is built, truncated to the limit of a message, and posted  *)
(* with a bounded number of retries over a network that may lose the       *)
(* request or its answer.                                                  *)
(*                                                                         *)
(* A block is known by its name, its Slack type and its length in the JSON *)
(* payload, separator included.  One action is one iteration of a loop.    *)
(***************************************************************************)
EXTENDS Naturals, Sequences, SequencesExt, Sums

CONSTANTS
  Lengths,              \* lengths a block of free text can have
  FixedLength,          \* length of a block whose text is bounded
  None,                 \* the report has no violated rule, or there is no URL
  _MAX_MESSAGE_LENGTH,
  _MAX_RETRIES

\* suite, hashes, numbers and versions are bounded: the first four blocks fit.
ASSUME SlackAssumption ==
  /\ Lengths \subseteq Nat /\ FixedLength \in Nat /\ None \notin Nat
  /\ _MAX_MESSAGE_LENGTH \in Nat /\ 4 * FixedLength <= _MAX_MESSAGE_LENGTH
  /\ _MAX_RETRIES \in Nat \ {0}

VARIABLES
  rules,      \* length of the violated rules of the report, or None
  url,        \* length of report_url, or None
  blocks,     \* payload["blocks"]
  pc,
  attempt,
  delivered,  \* how many copies of the message Slack has accepted
  answer,     \* what became of the last post
  result      \* what the caller gets: "none" while there is nothing

vars == <<rules, url, blocks, pc, attempt, delivered, answer, result>>

Blocks == [name : {"header", "summary", "divider", "metrics", "rules", "url", "context"},
           type : {"header", "section", "divider", "context"},
           length : {FixedLength} \cup Lengths]

\* The one type invariant of this module.
TypeOK ==
  /\ rules \in Lengths \cup {None} /\ url \in Lengths \cup {None}
  /\ blocks \in Seq(Blocks)
  /\ pc \in {"build", "truncate", "post", "sleep", "done"}
  /\ attempt \in 0..(_MAX_RETRIES - 1)
  /\ delivered \in 0.._MAX_RETRIES
  /\ answer \in {"none", "success", "refused", "unsettled", "raised"}
  /\ result \in {"none", "true", "false", "raised"}

Init ==
  /\ rules \in Lengths \cup {None} /\ url \in Lengths \cup {None}
  /\ blocks = <<>>
  /\ pc = "build"
  /\ attempt = 0
  /\ delivered = 0
  /\ answer = "none" /\ result = "none"

----------------------------------------------------------------------------
(* The message *)

Block(name, type, length) == [name |-> name, type |-> type, length |-> length]

\* The blocks before the ones that depend on the report, those, the footer.
Built ==
  <<Block("header", "header", FixedLength), Block("summary", "section", FixedLength),
    Block("divider", "divider", FixedLength), Block("metrics", "section", FixedLength)>>
  \o (IF rules = None THEN <<>> ELSE <<Block("rules", "section", rules)>>)
  \o (IF url = None THEN <<>> ELSE <<Block("url", "section", url)>>)
  \o <<Block("context", "context", FixedLength)>>

_build_message ==
  /\ pc = "build"
  /\ blocks' = Built
  /\ pc' = "truncate"
  /\ UNCHANGED <<rules, url, attempt, delivered, answer, result>>

_message_length(bs) == Total([i \in DOMAIN bs |-> bs[i].length])

\* Blocks that may go.
Removable(bs) == {i \in DOMAIN bs : bs[i].type \in {"section", "context", "divider"}}

\* Mutant: the first removable block goes.
Chosen_First(S) == CHOOSE i \in S : \A j \in S : i <= j

\* The loop over the indexes runs from the end.
Chosen(S) == CHOOSE i \in S : \A j \in S : j <= i

TooLong(bs) == bs # <<>> /\ _message_length(bs) > _MAX_MESSAGE_LENGTH

\* One iteration of _truncate_blocks: the last block that may go is popped.
PopBlock ==
  /\ pc = "truncate"
  /\ TooLong(blocks) /\ Removable(blocks) # {}
  /\ blocks' = RemoveAt(blocks, Chosen(Removable(blocks)))
  /\ UNCHANGED <<rules, url, pc, attempt, delivered, answer, result>>

\* The loop ends: the message fits, or nothing may go any more.
EndTruncation ==
  /\ pc = "truncate"
  /\ ~TooLong(blocks) \/ Removable(blocks) = {}
  /\ pc' = "post"
  /\ UNCHANGED <<rules, url, blocks, attempt, delivered, answer, result>>

----------------------------------------------------------------------------
(* The delivery *)

\* Mutant: attempts start at one.
LastAttempt_OneMore(n) == n + 1 > _MAX_RETRIES

LastAttempt(n) == n + 1 = _MAX_RETRIES

\* The exchange is over without an answer that settles it: the next attempt,
\* after a pause, unless this was the last one.
Unsettled ==
  IF LastAttempt(attempt)
  THEN pc' = "done" /\ result' = "false"
  ELSE pc' = "sleep" /\ UNCHANGED result

Return(r) == pc' = "done" /\ result' = r

\* A 2xx answer: Slack has the message.
PostSucceeds ==
  /\ pc = "post"
  /\ delivered' = delivered + 1
  /\ answer' = "success"
  /\ Return("true")
  /\ UNCHANGED <<rules, url, blocks, attempt>>

\* Mutant: a client error is tried again like a server error.
AfterRefusal_Retry == Unsettled

\* Any answer that is neither a success nor a 5xx: no retry.
AfterRefusal == Return("false")

PostRefused ==
  /\ pc = "post"
  /\ answer' = "refused"
  /\ AfterRefusal
  /\ UNCHANGED <<rules, url, blocks, attempt, delivered>>

\* A 5xx answer, a timeout or a transport error.  Slack may have accepted the
\* message before the answer was lost.
PostUnsettled ==
  /\ pc = "post"
  /\ delivered' \in {delivered, delivered + 1}
  /\ answer' = "unsettled"
  /\ Unsettled
  /\ UNCHANGED <<rules, url, blocks, attempt>>

\* An exception that is neither a timeout nor a transport error (a URL that
\* httpx cannot parse, an answer it cannot decode) is not caught.
PostRaises ==
  /\ pc = "post"
  /\ delivered' \in {delivered, delivered + 1}
  /\ answer' = "raised"
  /\ Return("raised")
  /\ UNCHANGED <<rules, url, blocks, attempt>>

\* Mutant: the attempts are not counted.
Sleep_Uncounted ==
  /\ pc = "sleep"
  /\ pc' = "post"
  /\ UNCHANGED <<rules, url, blocks, attempt, delivered, answer, result>>

Sleep ==
  /\ pc = "sleep"
  /\ attempt' = attempt + 1
  /\ pc' = "post"
  /\ UNCHANGED <<rules, url, blocks, delivered, answer, result>>

----------------------------------------------------------------------------
(* Specification *)

Next ==
  \/ _build_message \/ PopBlock \/ EndTruncation
  \/ PostSucceeds \/ PostRefused \/ PostUnsettled \/ PostRaises \/ Sleep

Spec == Init /\ [][Next]_vars

\* The function goes on: a post has a timeout of 10 s, a sleep ends.
FairSpec == Spec /\ WF_vars(Next)

----------------------------------------------------------------------------
(* Properties *)

\* _build_message: "The message is bounded to fit within Slack's 4000-character
\* limit": what is posted fits, has the header, the gate outcome and the
\* metrics, and lost no more than it had to: it is what was built up to some
\* block, and that block would not have fitted.
TruncationIsMinimal ==
  pc = "post" =>
    /\ _message_length(blocks) <= _MAX_MESSAGE_LENGTH
    /\ Len(blocks) >= 4
    /\ IsPrefix(blocks, Built)
    /\ blocks # Built =>
         _message_length(SubSeq(Built, 1, Len(blocks) + 1)) > _MAX_MESSAGE_LENGTH

\* Only a post whose fate is unknown is repeated, so Slack has more than one
\* copy of a message only when answers were lost, one per attempt at the most;
\* and the function gives up (False) only on a refusal or after all attempts.
\* False does not say that Slack has no copy.
RetriedOnlyWhenUnsettled ==
  /\ pc \in {"post", "sleep"} => answer \in {"none", "unsettled"}
  /\ result = "false" => answer = "refused" \/ attempt = _MAX_RETRIES - 1
  /\ delivered <= attempt + 1

\* A call ends, whatever the network does.
NotificationEnds == <>(pc = "done")
=============================================================================
