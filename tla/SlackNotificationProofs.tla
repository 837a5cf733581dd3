---------------------- MODULE SlackNotificationProofs ----------------------
(***************************************************************************)
(* The safety properties of SlackNotification, for texts of any length and *)
(* any number of attempts.                                                 *)
(***************************************************************************)
EXTENDS SlackNotification, SharedLemmas

\* The blocks are the first n of those that were built, at least the four of
\* bounded length, and one more would not fit.
CutAt(n) ==
  /\ n \in 4..Len(Built)
  /\ blocks = SubSeq(Built, 1, n)
  /\ n < Len(Built) => _message_length(SubSeq(Built, 1, n + 1)) > _MAX_MESSAGE_LENGTH

MessageInv ==
  /\ pc # "build" => \E n \in Nat : CutAt(n)
  /\ pc \in {"post", "sleep"} => _message_length(blocks) <= _MAX_MESSAGE_LENGTH

\* What the attempts so far have led to: only unsettled ones, and a copy each
\* at the most, which leaves room for one more while there is an attempt left.
DeliveryInv ==
  /\ pc \in {"build", "truncate", "post"} => delivered <= attempt
  /\ pc \in {"build", "truncate"} => answer = "none"
  /\ pc \in {"post", "sleep"} => answer \in {"none", "unsettled"}
  /\ pc = "sleep" => ~LastAttempt(attempt)
  /\ pc # "done" => result = "none"
  /\ result = "false" => answer = "refused" \/ attempt = _MAX_RETRIES - 1
  /\ delivered <= attempt + 1

\* The inductive invariant.  The properties alone are not inductive: they say
\* nothing of the message while it is truncated, nor of what an attempt that is
\* about to be made may add.
Inv == TypeOK /\ MessageInv /\ DeliveryInv

----------------------------------------------------------------------------
(* The message *)

\* A block that may be removed, and the sequences of blocks that a message grows
\* through: all but the header may go.
Loose(b) == b.type \in {"section", "context", "divider"}
Message(bs) ==
  /\ bs \in Seq(Blocks) /\ Len(bs) >= 4
  /\ bs[1].type = "header"
  /\ \A i \in 2..Len(bs) : Loose(bs[i])
  /\ \A i \in 1..4 : bs[i].length = FixedLength

LEMMA GrowMessage ==
  ASSUME NEW s, Message(s), NEW t \in Seq(Blocks), \A i \in 1..Len(t) : Loose(t[i])
  PROVE  Message(s \o t) /\ Len(s \o t) = Len(s) + Len(t)
<1> DEFINE q == s \o t
<1>0. s \in Seq(Blocks) /\ Len(s) >= 4
  BY DEF Message
<1>1. /\ q \in Seq(Blocks) /\ Len(q) = Len(s) + Len(t)
      /\ \A i \in 1..Len(s) + Len(t) : q[i] = IF i <= Len(s) THEN s[i] ELSE t[i - Len(s)]
  BY <1>0, ConcatProperties
<1>2. Len(s) \in Nat /\ Len(t) \in Nat
  BY <1>0
<1> HIDE DEF q
<1>3. \A i \in 1..4 : q[i] = s[i]
  BY <1>0, <1>1, <1>2
<1>4. ASSUME NEW i \in 2..Len(q) PROVE Loose(q[i])
  <2>1. CASE i <= Len(s)
    BY <1>1, <1>2, <2>1 DEF Message
  <2>2. CASE ~(i <= Len(s))
    <3>1. q[i] = t[i - Len(s)] /\ i - Len(s) \in 1..Len(t)
      BY <1>1, <1>2, <2>2
    <3> QED BY <3>1
  <2> QED BY <2>1, <2>2
<1>5. Len(q) >= 4
  BY <1>0, <1>1, <1>2
<1>6. q[1].type = "header" /\ \A i \in 1..4 : q[i].length = FixedLength
  BY <1>3 DEF Message
<1>7. Message(q)
  BY <1>1, <1>4, <1>5, <1>6 DEF Message
<1> QED BY <1>1, <1>7 DEF q

\* What _build_message builds: a message with at most three blocks after the
\* four that are bounded.
LEMMA BuiltShape ==
  ASSUME TypeOK
  PROVE  Message(Built) /\ Len(Built) \in 5..7
<1> DEFINE head == <<Block("header", "header", FixedLength),
                     Block("summary", "section", FixedLength),
                     Block("divider", "divider", FixedLength),
                     Block("metrics", "section", FixedLength)>>
           r == IF rules = None THEN <<>> ELSE <<Block("rules", "section", rules)>>
           u == IF url = None THEN <<>> ELSE <<Block("url", "section", url)>>
           foot == <<Block("context", "context", FixedLength)>>
<1>1. Message(head) /\ Len(head) = 4
  BY DEF Block, Blocks, Message, Loose
<1>2. r \in Seq(Blocks) /\ Len(r) \in 0..1 /\ \A i \in 1..Len(r) : Loose(r[i])
  <2>1. CASE rules = None
    BY <2>1
  <2>2. CASE rules # None
    <3>1. Block("rules", "section", rules) \in Blocks
      BY <2>2 DEF TypeOK, Block, Blocks
    <3> QED BY <2>2, <3>1 DEF Block, Loose
  <2> QED BY <2>1, <2>2
<1>3. u \in Seq(Blocks) /\ Len(u) \in 0..1 /\ \A i \in 1..Len(u) : Loose(u[i])
  <2>1. CASE url = None
    BY <2>1
  <2>2. CASE url # None
    <3>1. Block("url", "section", url) \in Blocks
      BY <2>2 DEF TypeOK, Block, Blocks
    <3> QED BY <2>2, <3>1 DEF Block, Loose
  <2> QED BY <2>1, <2>2
<1>4. foot \in Seq(Blocks) /\ Len(foot) = 1 /\ \A i \in 1..Len(foot) : Loose(foot[i])
  BY DEF Block, Blocks, Loose
<1>5. Built = ((head \o r) \o u) \o foot
  BY DEF Built
<1> HIDE DEF head, r, u, foot
<1>6. Message(head \o r) /\ Len(head \o r) = Len(head) + Len(r)
  BY <1>1, <1>2, GrowMessage, Zenon
<1>7. Message((head \o r) \o u) /\ Len((head \o r) \o u) = Len(head \o r) + Len(u)
  BY <1>3, <1>6, GrowMessage, Zenon
<1>8. /\ Message(((head \o r) \o u) \o foot)
      /\ Len(((head \o r) \o u) \o foot) = Len((head \o r) \o u) + Len(foot)
  BY <1>4, <1>7, GrowMessage, Zenon
<1>9. Len(((head \o r) \o u) \o foot) \in 5..7
  <2>1. \A a, b \in 0..1 : 4 + a + b + 1 \in 5..7
    OBVIOUS
  <2>2. Len(((head \o r) \o u) \o foot) = 4 + Len(r) + Len(u) + 1
    BY <1>1, <1>4, <1>6, <1>7, <1>8, Zenon
  <2> QED BY <1>2, <1>3, <2>1, <2>2, Zenon
<1> QED BY <1>5, <1>8, <1>9, Zenon

\* The length of a message is a number, and that of four bounded blocks is
\* within the limit.
LEMMA MessageLength ==
  ASSUME NEW bs \in Seq(Blocks)
  PROVE  /\ _message_length(bs) \in Nat
         /\ Len(bs) = 4 /\ (\A i \in 1..4 : bs[i].length = FixedLength)
              => _message_length(bs) <= _MAX_MESSAGE_LENGTH
<1> DEFINE c == [i \in DOMAIN bs |-> bs[i].length]
           sums == PartialSums(c)
<1>1. c \in Seq(Nat) /\ Len(c) = Len(bs) /\ \A i \in 1..Len(bs) : c[i] = bs[i].length
  <2>1. ASSUME NEW i \in 1..Len(bs) PROVE bs[i].length \in Nat
    <3>1. bs[i] \in Blocks
      OBVIOUS
    <3> QED BY <3>1, SlackAssumption DEF Blocks
  <2> QED BY <2>1
<1>2. _message_length(bs) = sums[Len(bs)]
  BY <1>1 DEF _message_length, Total
<1> HIDE DEF c
<1>3. /\ sums[0] = 0
      /\ \A i \in 1..Len(bs) : sums[i] = sums[i - 1] + c[i]
      /\ \A i \in 0..Len(bs) : sums[i] \in Nat
  BY <1>1, SumsProperties
<1> HIDE DEF sums
<1>4. ASSUME Len(bs) = 4, \A i \in 1..4 : bs[i].length = FixedLength
      PROVE  _message_length(bs) <= _MAX_MESSAGE_LENGTH
  <2>1. c[1] = FixedLength /\ c[2] = FixedLength /\ c[3] = FixedLength /\ c[4] = FixedLength
    BY <1>1, <1>4
  <2>2. sums[1] = sums[0] + c[1] /\ sums[2] = sums[1] + c[2] /\ sums[3] = sums[2] + c[3]
        /\ sums[4] = sums[3] + c[4]
    BY <1>3, <1>4
  <2>3. sums[4] = 4 * FixedLength
    BY <1>3, <2>1, <2>2, SlackAssumption
  <2> QED BY <1>2, <1>4, <2>3, SlackAssumption
<1>5. _message_length(bs) \in Nat
  BY <1>2, <1>3
<1> QED BY <1>4, <1>5

\* In the first n of the blocks that were built the last one is chosen, and
\* without it they are the first n - 1.
LEMMA PopLast ==
  ASSUME TypeOK, NEW n \in 4..Len(Built)
  PROVE  LET bs == SubSeq(Built, 1, n) IN
         /\ bs \in Seq(Blocks) /\ Len(bs) = n
         /\ Removable(bs) # {}
         /\ RemoveAt(bs, Chosen(Removable(bs))) = SubSeq(Built, 1, n - 1)
<1> DEFINE bs == SubSeq(Built, 1, n)
<1>1. /\ Built \in Seq(Blocks) /\ Len(Built) \in 5..7
      /\ Built[1].type = "header"
      /\ \A i \in 2..Len(Built) : Loose(Built[i])
  BY BuiltShape DEF Message
<1>2. bs \in Seq(Blocks) /\ Len(bs) = n /\ \A i \in 1..n : bs[i] = Built[i]
  BY <1>1
<1>3. Removable(bs) = 2..n
  BY <1>1, <1>2 DEF Removable, Loose
<1>4. Chosen(2..n) = n
  <2>1. n \in 2..n /\ \A j \in 2..n : j <= n
    BY <1>1
  <2>2. Chosen(2..n) \in 2..n /\ \A j \in 2..n : j <= Chosen(2..n)
    BY <2>1 DEF Chosen
  <2> QED BY <2>1, <2>2
<1>5. RemoveAt(bs, n) = SubSeq(Built, 1, n - 1)
  <2>1. SubSeq(bs, 1, n - 1) = SubSeq(Built, 1, n - 1)
    BY <1>1, <1>2
  <2>2. SubSeq(bs, n + 1, n) = <<>>
    BY <1>1, <1>2
  <2>3. SubSeq(Built, 1, n - 1) \in Seq(Blocks)
    BY <1>1
  <2> QED BY <1>2, <2>1, <2>2, <2>3 DEF RemoveAt
<1>6. n \in 2..n
  BY <1>1
<1> QED BY <1>2, <1>3, <1>4, <1>5, <1>6

----------------------------------------------------------------------------
(* Invariance *)

LEMMA InitInv == Init => Inv
BY SlackAssumption DEF Init, Inv, TypeOK, MessageInv, DeliveryInv

\* The properties are consequences of the invariant.
LEMMA InvTruncation == Inv => TruncationIsMinimal
<1> SUFFICES ASSUME Inv, pc = "post"
             PROVE  /\ _message_length(blocks) <= _MAX_MESSAGE_LENGTH
                    /\ Len(blocks) >= 4
                    /\ IsPrefix(blocks, Built)
                    /\ blocks # Built =>
                         _message_length(SubSeq(Built, 1, Len(blocks) + 1))
                           > _MAX_MESSAGE_LENGTH
  BY DEF TruncationIsMinimal
<1>1. PICK n \in Nat : CutAt(n)
  BY DEF Inv, MessageInv
<1>2. Built \in Seq(Blocks) /\ Len(Built) \in 5..7
  BY BuiltShape DEF Inv, Message
<1>3. Len(blocks) = n /\ n <= Len(Built) /\ n >= 4 /\ blocks = SubSeq(Built, 1, n)
  BY <1>1, <1>2 DEF CutAt
<1>4. IsPrefix(blocks, Built)
  <2>1. SubSeq(blocks, 1, n) = SubSeq(Built, 1, n)
    BY <1>2, <1>3
  <2> QED BY <1>3, <2>1 DEF IsPrefix
<1>5. n = Len(Built) => blocks = Built
  BY <1>2, <1>3
<1>6. n # Len(Built) => _message_length(SubSeq(Built, 1, n + 1)) > _MAX_MESSAGE_LENGTH
  BY <1>1, <1>2 DEF CutAt
<1>7. _message_length(blocks) <= _MAX_MESSAGE_LENGTH
  BY DEF Inv, MessageInv
<1> QED BY <1>3, <1>4, <1>5, <1>6, <1>7

LEMMA InvRetries == Inv => RetriedOnlyWhenUnsettled
BY DEF Inv, DeliveryInv, RetriedOnlyWhenUnsettled

\* A step that leaves the report, the blocks and the built message alone.
LEMMA SameMessage ==
  ASSUME MessageInv, UNCHANGED <<rules, url, blocks>>,
         pc # "build", pc' \in {"post", "sleep"} => pc \in {"post", "sleep"}
  PROVE  MessageInv'
<1>1. Built' = Built
  BY DEF Built
<1>2. PICK n \in Nat : CutAt(n)
  BY DEF MessageInv
<1>3. CutAt(n)'
  BY <1>1, <1>2 DEF CutAt
<1> QED BY <1>3 DEF MessageInv

LEMMA StepInv == Inv /\ [Next]_vars => Inv'
<1> SUFFICES ASSUME Inv, [Next]_vars PROVE Inv'
  OBVIOUS
<1>0. TypeOK /\ MessageInv /\ DeliveryInv
  BY DEF Inv
<1>1. CASE _build_message
  <2>1. Built' = Built /\ blocks' = Built
    BY <1>1 DEF _build_message, Built
  <2>2. Built \in Seq(Blocks) /\ Len(Built) \in 5..7
    BY <1>0, BuiltShape DEF Message
  <2>3. TypeOK'
    BY <1>0, <1>1, <2>1, <2>2 DEF _build_message, TypeOK
  <2>4. CutAt(Len(Built))'
    BY <2>1, <2>2 DEF CutAt
  <2>5. MessageInv'
    BY <1>1, <2>2, <2>4 DEF _build_message, MessageInv
  <2>6. DeliveryInv'
    BY <1>0, <1>1 DEF _build_message, DeliveryInv
  <2> QED BY <2>3, <2>5, <2>6 DEF Inv
<1>2. CASE PopBlock
  <2>1. PICK n \in Nat : CutAt(n)
    BY <1>0, <1>2 DEF PopBlock, MessageInv
  <2>2. /\ n \in 4..Len(Built) /\ blocks = SubSeq(Built, 1, n)
        /\ blocks \in Seq(Blocks) /\ Len(blocks) = n
        /\ blocks' = SubSeq(Built, 1, n - 1)
    BY <1>0, <1>2, <2>1, PopLast DEF PopBlock, CutAt
  <2>3. Message(Built) /\ Len(Built) \in 5..7
    BY <1>0, BuiltShape
  <2>4. Built' = Built
    BY <1>2 DEF PopBlock, Built
  <2>5. _message_length(blocks) \in Nat /\ _message_length(blocks) > _MAX_MESSAGE_LENGTH
    BY <1>2, <2>2, MessageLength DEF PopBlock, TooLong
  <2>6. n # 4
    <3> SUFFICES ASSUME n = 4 PROVE FALSE
      OBVIOUS
    <3>1. \A i \in 1..4 : blocks[i].length = FixedLength
      BY <2>2, <2>3 DEF Message
    <3>2. _message_length(blocks) <= _MAX_MESSAGE_LENGTH
      BY <2>2, <3>1, MessageLength
    <3> QED BY <2>5, <3>2, SlackAssumption
  <2>7. CutAt(n - 1)'
    BY <2>2, <2>3, <2>4, <2>5, <2>6 DEF CutAt
  <2>8. MessageInv'
    BY <1>2, <2>2, <2>3, <2>7 DEF MessageInv, PopBlock
  <2>9. TypeOK'
    <3>1. blocks' \in Seq(Blocks)
      BY <2>2, <2>3 DEF Message
    <3> QED BY <1>0, <1>2, <3>1 DEF TypeOK, PopBlock
  <2>10. DeliveryInv'
    BY <1>0, <1>2 DEF PopBlock, DeliveryInv
  <2> QED BY <2>8, <2>9, <2>10 DEF Inv
<1>3. CASE EndTruncation
  <2>1. PICK n \in Nat : CutAt(n)
    BY <1>0, <1>3 DEF EndTruncation, MessageInv
  <2>2. /\ blocks \in Seq(Blocks) /\ Len(blocks) = n /\ n >= 4
        /\ Removable(blocks) # {}
    BY <1>0, <2>1, PopLast DEF CutAt
  <2>3. blocks # <<>>
    BY <2>2
  <2>4. _message_length(blocks) <= _MAX_MESSAGE_LENGTH
    BY <1>3, <2>2, <2>3, MessageLength, SlackAssumption DEF EndTruncation, TooLong
  <2>5. Built' = Built /\ blocks' = blocks
    BY <1>3 DEF EndTruncation, Built
  <2>6. CutAt(n)' /\ _message_length(blocks)' <= _MAX_MESSAGE_LENGTH
    BY <2>1, <2>4, <2>5 DEF CutAt
  <2>7. MessageInv'
    BY <2>6 DEF MessageInv
  <2>8. TypeOK' /\ DeliveryInv'
    BY <1>0, <1>3 DEF EndTruncation, TypeOK, DeliveryInv
  <2> QED BY <2>7, <2>8 DEF Inv
<1>4. CASE PostSucceeds \/ PostRefused \/ PostUnsettled \/ PostRaises \/ Sleep
  <2> USE DEF PostSucceeds, PostRefused, PostUnsettled, PostRaises, Sleep,
              Unsettled, AfterRefusal, Return, LastAttempt
  <2>1. MessageInv'
    BY <1>0, <1>4, SameMessage
  <2>2. TypeOK'
    BY <1>0, <1>4, SlackAssumption DEF TypeOK, DeliveryInv
  <2>3. DeliveryInv'
    BY <1>0, <1>4, SlackAssumption DEF TypeOK, DeliveryInv
  <2> QED BY <2>1, <2>2, <2>3 DEF Inv
<1>5. CASE UNCHANGED vars
  <2>1. Built' = Built
    BY <1>5 DEF vars, Built
  <2>2. TypeOK' /\ DeliveryInv'
    BY <1>0, <1>5 DEF vars, TypeOK, DeliveryInv
  <2>3. MessageInv'
    BY <1>0, <1>5, <2>1 DEF vars, MessageInv, CutAt
  <2> QED BY <2>2, <2>3 DEF Inv
<1> QED BY <1>1, <1>2, <1>3, <1>4, <1>5 DEF Next

LEMMA Invariance == Spec => []Inv
BY InitInv, StepInv, PTL DEF Spec

\* Message, attempts, answers and results keep their types: the attempts stay
\* below _MAX_RETRIES and there is one copy per attempt at the most.
THEOREM NotificationTypeCorrect == Spec => []TypeOK
<1>1. Inv => TypeOK
  BY DEF Inv
<1> QED BY <1>1, Invariance, PTL

\* What is posted fits, keeps the header, the verdict and the metrics, and lost
\* only what did not fit, for rules and links of any length.
THEOREM MessageFits == Spec => []TruncationIsMinimal
BY Invariance, InvTruncation, PTL

\* Only unsettled posts are repeated, False means a refusal or no attempt left,
\* and Slack has at most one copy per attempt, for any number of attempts.
THEOREM RetriesJustified == Spec => []RetriedOnlyWhenUnsettled
BY Invariance, InvRetries, PTL
=============================================================================
