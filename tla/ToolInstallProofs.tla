------------------------- MODULE ToolInstallProofs --------------------------
(***************************************************************************)
(* Proofs about ToolInstall, for any number of connections, clicks,        *)
(* crashes, installations that leave an old process, and uninstallations.  *)
(***************************************************************************)
EXTENDS ToolInstall, SequenceTheorems, TLAPS

Errors == {"invalid", "interrupted"}

LEMMA BlockKinds ==
    /\ [do |-> "drop"] \in Blocks
    /\ \A what \in Versions \cup Errors : Reply(what) \in Blocks
    /\ \A b \in Blocks : \/ b.do = "drop"
                         \/ b.do = "reply" /\ b.what \in Versions \cup Errors
<1>1. [do |-> "drop"] \in Blocks
  BY DEF Blocks
<1>2. ASSUME NEW what \in Versions \cup Errors PROVE Reply(what) \in Blocks
  BY DEF Blocks, Errors
<1>3. ASSUME NEW what PROVE Reply(what).do = "reply" /\ Reply(what).what = what
  BY DEF Reply
<1>4. ASSUME NEW b \in Blocks, b # [do |-> "drop"]
      PROVE  b.do = "reply" /\ b.what \in Versions \cup Errors
  <2>1. PICK what \in Versions \cup Errors : b = Reply(what)
    BY <1>4 DEF Blocks, Errors
  <2>2. QED
    BY <2>1, <1>3
<1>5. [do |-> "drop"].do = "drop"
  OBVIOUS
<1>6. QED
  BY <1>1, <1>2, <1>4, <1>5

\* The positions of a queue after its first block is taken ...
LEMMA TailOfQueue ==
    ASSUME NEW q \in Seq(Blocks), q # <<>>
    PROVE  /\ Tail(q) \in Seq(Blocks) /\ 1 \in DOMAIN q /\ q[1] = Head(q)
           /\ DOMAIN q \subseteq Nat
           /\ \A i \in DOMAIN Tail(q) : /\ i \in Nat /\ i + 1 \in DOMAIN q
                                        /\ Tail(q)[i] = q[i + 1]
  OBVIOUS

\* ... and after one is appended.
LEMMA BlockAppended ==
    ASSUME NEW q \in Seq(Blocks), NEW b \in Blocks
    PROVE  /\ q \o <<b>> \in Seq(Blocks) /\ Append(q, b) = q \o <<b>>
           /\ Len(q) + 1 \in DOMAIN (q \o <<b>>) /\ Len(q) + 1 \notin DOMAIN q
           /\ (q \o <<b>>)[Len(q) + 1] = b
           /\ \A i \in DOMAIN (q \o <<b>>) :
                 \/ i \in DOMAIN q /\ (q \o <<b>>)[i] = q[i]
                 \/ i = Len(q) + 1
           /\ \A i \in DOMAIN q : i \in DOMAIN (q \o <<b>>)
                                  /\ (q \o <<b>>)[i] = q[i]
  OBVIOUS

LEMMA NothingAppended ==
    ASSUME NEW q \in Seq(Blocks)
    PROVE  q \o <<>> = q
  OBVIOUS

LEMMA Spent ==
    ASSUME NEW b \in Budgets
    PROVE  /\ b.clicks > 0 => [b EXCEPT !.clicks = @ - 1] \in Budgets
           /\ b.lingers > 0 => [b EXCEPT !.lingers = @ - 1] \in Budgets
           /\ b.crashes > 0 => [b EXCEPT !.crashes = @ - 1] \in Budgets
           /\ b.uninstalls > 0 => [b EXCEPT !.uninstalls = @ - 1] \in Budgets
  BY InstallAssumption DEF Budgets

LEMMA FailedMessages ==
    ASSUME NEW messages, NEW error \in Errors
    PROVE  \/ /\ \E m \in messages : m[1] = "version"
              /\ Failed(messages, error) = <<Reply(error)>>
              /\ Reply(error) \in Blocks
           \/ /\ ~\E m \in messages : m[1] = "version"
              /\ Failed(messages, error) = <<>>
  BY BlockKinds DEF Failed

-----------------------------------------------------------------------------
(***************************************************************************)
(* The types.                                                              *)
(***************************************************************************)
LEMMA AskVersionTypes ==
    ASSUME Types, NEW left, left \subseteq pending, AskVersion(left)
    PROVE  /\ created' \in 0 .. MaxConnections /\ connection' \in 0 .. created'
           /\ valid' \in [Connections -> BOOLEAN]
           /\ armed' \in [Connections -> BOOLEAN]
           /\ pending' \subseteq {"version", "click"} \X (1 .. created')
           /\ outcome' \in Outcomes /\ stale' \in BOOLEAN
<1>1. /\ created \in Nat /\ Connected \in 1 .. MaxConnections
      /\ created' = IF MustConnect THEN Connected ELSE created
      /\ MustConnect => Connected = created + 1
      /\ ~MustConnect => Connected \in 1 .. created
      /\ connection' = Connected
  BY InstallAssumption
     DEF Types, AskVersion, Send, Connected, MustConnect, Connections, Nil
<1>2. valid' \in [Connections -> BOOLEAN] /\ armed' \in [Connections -> BOOLEAN]
  BY DEF Types, AskVersion, Send
<1>3. stale' \in BOOLEAN /\ outcome' \in Outcomes
  BY DEF AskVersion, Outcomes
<1>4. created' \in 0 .. MaxConnections /\ connection' \in 0 .. created'
  BY <1>1, InstallAssumption DEF Types
<1>5. pending' \subseteq {"version", "click"} \X (1 .. created')
  BY <1>1, <1>4 DEF Types, AskVersion
<1>6. QED
  BY <1>2, <1>3, <1>4, <1>5

LEMMA InitTypes == Init => Types
<1> SUFFICES ASSUME Init PROVE Types
  OBVIOUS
<1>0. /\ created = 0 /\ connection = 0 /\ mainQueue = <<>> /\ pending = {}
      /\ budget = [clicks |-> MaxClicks, lingers |-> MaxLingers,
                   crashes |-> MaxCrashes, uninstalls |-> MaxUninstalls]
  BY DEF Init, Nil
<1>1. /\ created \in 0 .. MaxConnections /\ connection \in 0 .. created
      /\ budget \in Budgets
  BY <1>0, InstallAssumption DEF Budgets
<1>2. valid \in [Connections -> BOOLEAN] /\ armed \in [Connections -> BOOLEAN]
  BY DEF Init
<1>3. pending = {} /\ mainQueue \in Seq(Blocks)
  BY <1>0
<1>4. installed \in Versions /\ process \in Versions
  BY DEF Init, Versions
<1>5. outcome \in Outcomes /\ stale \in BOOLEAN
  BY DEF Init, Outcomes
<1>6. QED
  BY <1>1, <1>2, <1>3, <1>4, <1>5 DEF Types

LEMMA StepTypes == Types /\ [Next]_vars => Types'
<1> SUFFICES ASSUME Types, [Next]_vars PROVE Types'
  OBVIOUS
<1>0. NewTool \in Versions /\ NoTool \in Versions
  BY DEF Versions
<1>1. CASE DidFinishLaunching
  BY <1>1, AskVersionTypes DEF DidFinishLaunching, Types, tool
<1>2. CASE DropConnection
  BY <1>2, TailOfQueue DEF DropConnection, First, Types, tool, Nil
<1>3. CASE VersionReply
  BY <1>3, TailOfQueue DEF VersionReply, First, Types, tool, xpc, Outcomes
<1>4. CASE Install
  <2>1. PICK left \in SUBSET pending : AskVersion(left)
    BY <1>4 DEF Install
  <2>2. /\ mainQueue' \in Seq(Blocks) /\ installed' = NewTool
        /\ process' \in {NoTool, process}
        /\ budget' \in Budgets
    BY <1>4, TailOfQueue, Spent DEF Install, First, Types
  <2>3. QED
    BY <1>0, <2>1, <2>2, AskVersionTypes DEF Types
<1>5. CASE InstallFails
  BY <1>5, TailOfQueue DEF InstallFails, First, Types, tool, xpc, Outcomes
<1>6. CASE Click
  <2>1. /\ created \in Nat /\ Connected \in 1 .. MaxConnections
        /\ created' = IF MustConnect THEN Connected ELSE created
        /\ MustConnect => Connected = created + 1
        /\ ~MustConnect => Connected \in 1 .. created
        /\ connection' = Connected
    <3>1. created \in Nat /\ connection \in 0 .. created
      BY InstallAssumption DEF Types
    <3>2. Send("click")
      BY <1>6, Zenon DEF Click
    <3>3. QED
      BY <3>1, <3>2, InstallAssumption DEF Send, Connected, MustConnect, Connections, Nil
  <2>2. valid' \in [Connections -> BOOLEAN] /\ armed' \in [Connections -> BOOLEAN]
    BY <1>6 DEF Types, Click, Send
  <2>3. budget' \in Budgets
    BY <1>6, Spent DEF Types, Click
  <2>4. created' \in 0 .. MaxConnections /\ connection' \in 0 .. created'
    BY <2>1, InstallAssumption DEF Types
  <2>5. pending' \subseteq {"version", "click"} \X (1 .. created')
    <3>1. <<"click", Connected>> \in {"version", "click"} \X (1 .. created')
      BY <2>1, <2>4
    <3>2. 1 .. created \subseteq 1 .. created'
      BY <2>1
    <3>3. QED
      BY <1>6, <3>1, <3>2 DEF Types, Click
  <2>6. QED
    BY <1>6, <2>2, <2>3, <2>4, <2>5 DEF Types, Click, tool
<1>7. CASE Launch
  BY <1>7 DEF Launch, Types, xpc
<1>8. ASSUME NoProcess PROVE mainQueue' \in Seq(Blocks) /\ pending' \subseteq pending
  <2>1. PICK lost \in SUBSET pending :
           /\ pending' = pending \ lost
           /\ mainQueue' = mainQueue \o Failed(lost, "interrupted")
    BY <1>8 DEF NoProcess
  <2>2. QED
    <3>1. "interrupted" \in Errors /\ mainQueue \in Seq(Blocks)
      BY DEF Errors, Types
    <3>2. CASE Failed(lost, "interrupted") = <<>>
      BY <2>1, <3>1, <3>2, NothingAppended
    <3>3. CASE Failed(lost, "interrupted") = <<Reply("interrupted")>>
      BY <2>1, <3>1, <3>3, BlockKinds, BlockAppended
    <3>4. QED
      BY <3>1, <3>2, <3>3, FailedMessages
<1>9. CASE OldProcessEnds \/ Crash \/ Uninstall
  <2>1. NoProcess
    BY <1>9 DEF OldProcessEnds, Crash, Uninstall, ProcessEnds
  <2>2. installed' \in Versions
    BY <1>0, <1>9 DEF OldProcessEnds, Crash, Uninstall, Types
  <2>3. budget' \in Budgets
    BY <1>9, Spent DEF OldProcessEnds, Crash, Uninstall, Types
  <2>4. QED
    BY <1>0, <1>8, <2>1, <2>2, <2>3 DEF NoProcess, Types
<1>10. ASSUME NEW m \in pending, Answer(m) PROVE Types'
  BY <1>10, BlockKinds, BlockAppended DEF Answer, Types, tool
<1>11. ASSUME NEW m \in pending, FailInvalid(m) PROVE Types'
  <2>1. mainQueue' \in Seq(Blocks)
    <3>1. /\ "invalid" \in Errors /\ mainQueue \in Seq(Blocks)
          /\ mainQueue' = mainQueue \o Failed({m}, "invalid")
      BY <1>11 DEF Errors, Types, FailInvalid
    <3>2. CASE Failed({m}, "invalid") = <<>>
      BY <3>1, <3>2, NothingAppended
    <3>3. CASE Failed({m}, "invalid") = <<Reply("invalid")>>
      BY <3>1, <3>3, BlockKinds, BlockAppended
    <3>4. QED
      BY <3>1, <3>2, <3>3, FailedMessages
  <2>2. QED
    BY <1>11, <2>1 DEF FailInvalid, Types, tool
<1>12. ASSUME NEW c \in Connections, Invalidate(c) PROVE Types'
  BY <1>12 DEF Invalidate, Types, tool
<1>13. ASSUME NEW c \in Connections, InvalidationHandler(c) PROVE Types'
  BY <1>13, BlockKinds, BlockAppended DEF InvalidationHandler, DropBlock, Types, tool
<1>14. CASE UNCHANGED vars
  BY <1>14 DEF vars, xpc, tool, Types
<1>15. QED
  BY <1>1, <1>2, <1>3, <1>4, <1>5, <1>6, <1>7, <1>9, <1>10, <1>11, <1>12, <1>13,
     <1>14 DEF Next, MainThread

-----------------------------------------------------------------------------
(***************************************************************************)
(* One query at a time.                                                    *)
(***************************************************************************)
BlocksAt(kind, q) == {i \in DOMAIN q : q[i].do = kind}

AtMostOne(S) == \A i, j \in S : i = j

LEMMA OnlyBlockTaken ==
    ASSUME NEW q \in Seq(Blocks), q # <<>>, AtMostOne(BlocksAt(Head(q).do, q))
    PROVE  BlocksAt(Head(q).do, Tail(q)) = {} /\ BlocksAt(Head(q).do, q) # {}
<1>1. 1 \in BlocksAt(Head(q).do, q)
  BY TailOfQueue DEF BlocksAt
<1>2. ASSUME NEW i \in BlocksAt(Head(q).do, Tail(q)) PROVE FALSE
  <2>1. i \in Nat /\ i + 1 \in DOMAIN q /\ Tail(q)[i] = q[i + 1]
    BY TailOfQueue DEF BlocksAt
  <2>2. i + 1 \in BlocksAt(Head(q).do, q)
    BY <2>1 DEF BlocksAt
  <2>3. i + 1 = 1 /\ i \in DOMAIN Tail(q) /\ Tail(q) \in Seq(Blocks)
    BY <1>1, <2>2, TailOfQueue DEF AtMostOne, BlocksAt
  <2>4. QED
    BY <2>3
<1>3. QED
  BY <1>1, <1>2

LEMMA OtherBlockTaken ==
    ASSUME NEW q \in Seq(Blocks), q # <<>>, NEW kind, Head(q).do # kind
    PROVE  /\ BlocksAt(kind, Tail(q)) = {} <=> BlocksAt(kind, q) = {}
           /\ AtMostOne(BlocksAt(kind, q)) => AtMostOne(BlocksAt(kind, Tail(q)))
<1>1. ASSUME NEW i \in BlocksAt(kind, Tail(q))
      PROVE  i \in Nat /\ i + 1 \in BlocksAt(kind, q)
  BY TailOfQueue DEF BlocksAt
<1>2. ASSUME NEW i \in BlocksAt(kind, q) PROVE i - 1 \in BlocksAt(kind, Tail(q))
  <2>1. i # 1 /\ i \in DOMAIN q
    BY TailOfQueue DEF BlocksAt
  <2>2. i - 1 \in DOMAIN Tail(q) /\ Tail(q)[i - 1] = q[i]
    BY <2>1
  <2>3. QED
    BY <2>2 DEF BlocksAt
<1>3. ASSUME AtMostOne(BlocksAt(kind, q)),
             NEW i \in BlocksAt(kind, Tail(q)), NEW j \in BlocksAt(kind, Tail(q))
      PROVE  i = j
  <2>1. i \in Nat /\ j \in Nat /\ i + 1 = j + 1
    BY <1>1, <1>3 DEF AtMostOne
  <2>2. QED
    BY <2>1
<1>4. QED
  BY <1>1, <1>2, <1>3 DEF AtMostOne

LEMMA BlockAdded ==
    ASSUME NEW q \in Seq(Blocks), NEW b \in Blocks
    PROVE  /\ BlocksAt(b.do, q) = {} =>
                 /\ AtMostOne(BlocksAt(b.do, q \o <<b>>))
                 /\ BlocksAt(b.do, q \o <<b>>) # {}
           /\ \A kind : kind # b.do => BlocksAt(kind, q \o <<b>>) = BlocksAt(kind, q)
<1>1. ASSUME BlocksAt(b.do, q) = {}
      PROVE  BlocksAt(b.do, q \o <<b>>) = {Len(q) + 1}
  BY <1>1, BlockAppended DEF BlocksAt
<1>2. ASSUME NEW kind, kind # b.do
      PROVE  BlocksAt(kind, q \o <<b>>) = BlocksAt(kind, q)
  BY <1>2, BlockAppended DEF BlocksAt
<1>3. QED
  BY <1>1, <1>2 DEF AtMostOne

LEMMA InitOneQuery == Init => OneQuery
<1> SUFFICES ASSUME Init PROVE OneQuery
  OBVIOUS
<1>1. mainQueue = <<>> /\ pending = {} /\ outcome = "not asked"
  BY DEF Init
<1>2. Asked = {}
  BY <1>1 DEF Asked
<1>3. Replied = {}
  <2>1. mainQueue \in Seq(Blocks) /\ Len(mainQueue) = 0
    BY <1>1, EmptySeq
  <2>2. DOMAIN mainQueue = {}
    BY <2>1
  <2>3. QED
    BY <2>2 DEF Replied
<1>4. QED
  BY <1>1, <1>2, <1>3 DEF OneQuery

\* When a query begins, no other message that is left is one.
LEMMA AskVersionIsOneQuery ==
    ASSUME NEW left, AskVersion(left), Replied' = {},
           \A m \in left : m[1] # "version"
    PROVE  OneQuery'
<1>1. Asked' = {<<"version", Connected>>}
  BY DEF AskVersion, Asked
<1>2. QED
  BY <1>1 DEF AskVersion, OneQuery

\* A step that takes messages and moves the query, if it is among them, to the
\* main queue.
LEMMA QueryMoves ==
    ASSUME TypeOK, NEW lost \in SUBSET pending, NEW what \in Versions \cup Errors,
           pending' = pending \ lost, outcome' = outcome,
           mainQueue' = IF \E m \in lost : m[1] = "version"
                        THEN mainQueue \o <<Reply(what)>> ELSE mainQueue
    PROVE  OneQuery'
<1>0. /\ mainQueue \in Seq(Blocks) /\ Reply(what) \in Blocks
      /\ Reply(what).do = "reply" /\ OneQuery
      /\ Replied = BlocksAt("reply", mainQueue)
      /\ Replied' = BlocksAt("reply", mainQueue')
  BY BlockKinds DEF TypeOK, Types, BlocksAt, Replied, Reply
<1>1. CASE \E m \in lost : m[1] = "version"
  <2>1. Asked # {} /\ Replied = {} /\ outcome = "asking"
    BY <1>0, <1>1 DEF OneQuery, Asked
  <2>2. Asked' = {}
    BY <1>0, <1>1 DEF OneQuery, Asked
  <2>3. AtMostOne(Replied') /\ Replied' # {}
    BY <1>0, <1>1, <2>1, BlockAdded
  <2>4. QED
    BY <2>1, <2>2, <2>3 DEF OneQuery, AtMostOne
<1>2. CASE ~\E m \in lost : m[1] = "version"
  <2>1. Asked' = Asked /\ Replied' = Replied
    BY <1>0, <1>2 DEF Asked
  <2>2. QED
    BY <1>0, <2>1 DEF OneQuery
<1>3. QED
  BY <1>1, <1>2

LEMMA StepOneQuery == TypeOK /\ [Next]_vars => OneQuery'
<1> SUFFICES ASSUME TypeOK, [Next]_vars PROVE OneQuery'
  OBVIOUS
<1>0. /\ OneQuery /\ mainQueue \in Seq(Blocks)
      /\ Replied = BlocksAt("reply", mainQueue)
      /\ Replied' = BlocksAt("reply", mainQueue')
      /\ AtMostOne(Replied)
  BY DEF TypeOK, Types, BlocksAt, Replied, OneQuery, AtMostOne
<1>1. CASE DidFinishLaunching
  <2>1. AskVersion(pending) /\ Replied' = {} /\ Asked = {}
    BY <1>0, <1>1 DEF DidFinishLaunching, OneQuery
  <2>2. QED
    BY <2>1, AskVersionIsOneQuery DEF Asked
<1>2. ASSUME First("reply"), mainQueue' = Tail(mainQueue)
      PROVE  Replied' = {} /\ Asked = {} /\ outcome = "asking"
  <2>1. Replied' = {} /\ Replied # {}
    BY <1>0, <1>2, OnlyBlockTaken DEF First
  <2>2. QED
    BY <1>0, <2>1 DEF OneQuery
<1>3. CASE DropConnection
  <2>1. /\ Replied' = {} <=> Replied = {}
        /\ AtMostOne(Replied')
    BY <1>0, <1>3, OtherBlockTaken DEF DropConnection, First
  <2>2. pending' = pending /\ outcome' = outcome
    BY <1>3 DEF DropConnection
  <2>3. QED
    BY <1>0, <2>1, <2>2 DEF OneQuery, AtMostOne, Asked
<1>4. CASE VersionReply \/ InstallFails
  <2>1. /\ First("reply") /\ mainQueue' = Tail(mainQueue) /\ pending' = pending
        /\ outcome' \in {"available", "error", "failed"}
    BY <1>4 DEF VersionReply, InstallFails, xpc
  <2>2. QED
    BY <1>2, <2>1 DEF OneQuery, Asked
<1>5. CASE Install
  <2>1. PICK left \in SUBSET pending : AskVersion(left)
    BY <1>5 DEF Install
  <2>2. Replied' = {} /\ Asked = {}
    BY <1>2, <1>5 DEF Install
  <2>3. QED
    BY <2>1, <2>2, AskVersionIsOneQuery DEF Asked
<1>6. CASE Click
  <2>1. pending' = pending \cup {<<"click", Connected>>} /\ outcome' = outcome
    BY <1>6 DEF Click
  <2>2. <<"click", Connected>>[1] # "version"
    OBVIOUS
  <2>3. Asked' = Asked
    BY <2>1, <2>2 DEF Asked
  <2>4. Replied' = Replied
    BY <1>6 DEF Click, Replied
  <2>5. QED
    BY <1>0, <2>1, <2>3, <2>4 DEF OneQuery
<1>7. ASSUME pending' = pending, mainQueue' = mainQueue, outcome' = outcome
      PROVE  OneQuery'
  BY <1>0, <1>7 DEF OneQuery, Asked, Replied
<1>8. CASE Launch \/ (\E c \in Connections : Invalidate(c)) \/ UNCHANGED vars
  BY <1>7, <1>8 DEF Launch, Invalidate, vars, xpc
<1>9. CASE OldProcessEnds \/ Crash \/ Uninstall
  <2>1. PICK lost \in SUBSET pending :
           /\ pending' = pending \ lost /\ outcome' = outcome
           /\ mainQueue' = mainQueue \o Failed(lost, "interrupted")
    BY <1>9 DEF OldProcessEnds, Crash, Uninstall, ProcessEnds, NoProcess
  <2>2. "interrupted" \in Errors
    BY DEF Errors
  <2>3. mainQueue' = IF \E m \in lost : m[1] = "version"
                     THEN mainQueue \o <<Reply("interrupted")>> ELSE mainQueue
    BY <1>0, <2>1, NothingAppended DEF Failed
  <2>4. QED
    BY <2>1, <2>2, <2>3, QueryMoves
<1>10. ASSUME NEW m \in pending, Answer(m) PROVE OneQuery'
  <2>1. /\ {m} \in SUBSET pending /\ process \in Versions
        /\ pending' = pending \ {m} /\ outcome' = outcome
        /\ mainQueue' = IF m[1] = "version" THEN Append(mainQueue, Reply(process))
                                            ELSE mainQueue
    BY <1>10 DEF Answer, TypeOK, Types
  <2>2. Reply(process) \in Blocks
    BY <2>1, BlockKinds
  <2>3. Append(mainQueue, Reply(process)) = mainQueue \o <<Reply(process)>>
    BY <1>0, <2>2, BlockAppended
  <2>4. QED
    BY <2>1, <2>3, QueryMoves
<1>11. ASSUME NEW m \in pending, FailInvalid(m) PROVE OneQuery'
  <2>1. /\ {m} \in SUBSET pending /\ "invalid" \in Errors
        /\ pending' = pending \ {m} /\ outcome' = outcome
    BY <1>11 DEF FailInvalid, Errors
  <2>2. mainQueue' = IF \E n \in {m} : n[1] = "version"
                     THEN mainQueue \o <<Reply("invalid")>> ELSE mainQueue
    BY <1>0, <1>11, NothingAppended DEF FailInvalid, Failed
  <2>3. QED
    BY <2>1, <2>2, QueryMoves
<1>12. ASSUME NEW c \in Connections, InvalidationHandler(c) PROVE OneQuery'
  <2>1. /\ mainQueue' = mainQueue \o <<[do |-> "drop"]>>
        /\ pending' = pending /\ outcome' = outcome
    BY <1>12 DEF InvalidationHandler, DropBlock
  <2>2. Replied' = Replied
    BY <1>0, <2>1, BlockKinds, BlockAdded
  <2>3. QED
    BY <1>0, <2>1, <2>2 DEF OneQuery, Asked
<1>13. QED
  BY <1>1, <1>3, <1>4, <1>5, <1>6, <1>8, <1>9, <1>10, <1>11, <1>12
     DEF Next, MainThread

\* The types hold, and the recursion of _ensureThatNewestToolIsInstalled neither
\* forks nor stops without an outcome, for any number of rounds and failures.
THEOREM TypeCorrect == Spec => []TypeOK
<1>1. Init => TypeOK
  BY InitTypes, InitOneQuery DEF TypeOK
<1>2. TypeOK /\ [Next]_vars => TypeOK'
  BY StepTypes, StepOneQuery DEF TypeOK
<1>3. QED
  BY <1>1, <1>2, PTL DEF Spec

-----------------------------------------------------------------------------
(***************************************************************************)
(* The connection object.                                                  *)
(***************************************************************************)
Dropping == BlocksAt("drop", mainQueue)

\* Only the connection in use has a handler, and a block that is about to drop it
\* means that it is invalid and has none: so there is one such block at most, and
\* no other connection is made before the block runs.
OnlyInvalidQueued ==
    /\ \A c \in Connections : armed[c] => c = connection
    /\ Dropping # {} => connection # Nil /\ ~valid[connection] /\ ~armed[connection]
    /\ AtMostOne(Dropping)

LEMMA InitOnlyInvalidQueued == Init => OnlyInvalidQueued
<1> SUFFICES ASSUME Init PROVE OnlyInvalidQueued
  OBVIOUS
<1>1. \A c \in Connections : ~armed[c]
  BY DEF Init
<1>2. mainQueue \in Seq(Blocks) /\ Len(mainQueue) = 0
  BY EmptySeq DEF Init
<1>3. DOMAIN mainQueue = {}
  BY <1>2
<1>4. Dropping = {}
  BY <1>3 DEF Dropping, BlocksAt
<1>5. QED
  BY <1>1, <1>4 DEF OnlyInvalidQueued, AtMostOne

LEMMA SendKeepsInvalid ==
    ASSUME Types, OnlyInvalidQueued, NEW message, Send(message),
           Dropping' = {} <=> Dropping = {}, AtMostOne(Dropping')
    PROVE  OnlyInvalidQueued'
<1>1. CASE MustConnect
  <2>1. /\ connection = Nil /\ Dropping' = {} /\ Nil \notin Connections
        /\ \A c \in Connections : ~armed[c]
    BY <1>1 DEF OnlyInvalidQueued, MustConnect, Nil, Connections
  <2>2. /\ connection' = Connected
        /\ armed' = [armed EXCEPT ![Connected] = TRUE]
        /\ armed \in [Connections -> BOOLEAN]
    BY <1>1 DEF Send, Types
  <2>3. QED
    BY <2>1, <2>2 DEF OnlyInvalidQueued
<1>2. CASE ~MustConnect
  BY <1>2 DEF Send, Connected, OnlyInvalidQueued
<1>3. QED
  BY <1>1, <1>2

LEMMA StepOnlyInvalidQueued ==
    TypeOK /\ OnlyInvalidQueued /\ [Next]_vars => OnlyInvalidQueued'
<1> SUFFICES ASSUME TypeOK, OnlyInvalidQueued, [Next]_vars PROVE OnlyInvalidQueued'
  OBVIOUS
<1>0. /\ Types /\ mainQueue \in Seq(Blocks) /\ AtMostOne(Dropping)
      /\ Dropping = BlocksAt("drop", mainQueue)
      /\ Dropping' = BlocksAt("drop", mainQueue')
  BY DEF TypeOK, Types, Dropping, OnlyInvalidQueued
<1>1. ASSUME First("reply"), mainQueue' = Tail(mainQueue)
      PROVE  (Dropping' = {} <=> Dropping = {}) /\ AtMostOne(Dropping')
  BY <1>0, <1>1, OtherBlockTaken DEF First
<1>2. ASSUME Dropping' = Dropping, connection' = connection, armed' = armed,
             valid' = valid \/ \E c \in Connections : valid' = [valid EXCEPT ![c] = FALSE]
      PROVE  OnlyInvalidQueued'
  <2>1. connection # Nil => connection \in Connections
    BY <1>0, InstallAssumption DEF Types, Connections, Nil
  <2>2. valid \in [Connections -> BOOLEAN]
    BY <1>0 DEF Types
  <2>3. ~valid[connection] /\ connection # Nil => ~valid'[connection]
    BY <1>2, <2>1, <2>2
  <2>4. QED
    BY <1>2, <2>3 DEF OnlyInvalidQueued
<1>3. CASE DidFinishLaunching
  BY <1>0, <1>3, SendKeepsInvalid DEF DidFinishLaunching, AskVersion
<1>4. CASE Click
  BY <1>0, <1>4, SendKeepsInvalid DEF Click
<1>5. CASE Install
  <2>1. PICK left \in SUBSET pending : AskVersion(left)
    BY <1>5 DEF Install
  <2>2. (Dropping' = {} <=> Dropping = {}) /\ AtMostOne(Dropping')
    BY <1>1, <1>5 DEF Install
  <2>3. QED
    BY <1>0, <2>1, <2>2, SendKeepsInvalid DEF AskVersion
<1>6. CASE VersionReply \/ InstallFails
  <2>1. /\ First("reply") /\ mainQueue' = Tail(mainQueue)
        /\ UNCHANGED <<connection, valid, armed>>
    BY <1>6 DEF VersionReply, InstallFails, xpc
  <2>2. QED
    BY <1>1, <2>1 DEF OnlyInvalidQueued
<1>7. CASE DropConnection
  <2>1. Dropping' = {} /\ Dropping # {}
    BY <1>0, <1>7, OnlyBlockTaken DEF DropConnection, First
  <2>2. \A c \in Connections : ~armed[c]
    BY <2>1 DEF OnlyInvalidQueued
  <2>3. QED
    BY <1>7, <2>1, <2>2 DEF DropConnection, OnlyInvalidQueued, AtMostOne
<1>8. CASE Launch \/ UNCHANGED vars
  BY <1>2, <1>8 DEF Launch, vars, xpc, Dropping
<1>9. CASE \E c \in Connections : Invalidate(c)
  BY <1>2, <1>9 DEF Invalidate, Dropping
<1>10. ASSUME NEW what \in Versions \cup Errors,
              mainQueue' = mainQueue \/ mainQueue' = mainQueue \o <<Reply(what)>>
       PROVE  Dropping' = Dropping
  <2>1. Reply(what) \in Blocks /\ "drop" # Reply(what).do
    BY BlockKinds DEF Reply
  <2>2. BlocksAt("drop", mainQueue \o <<Reply(what)>>) = BlocksAt("drop", mainQueue)
    BY <1>0, <2>1, BlockAdded
  <2>3. QED
    BY <1>0, <1>10, <2>2
<1>11. CASE OldProcessEnds \/ Crash \/ Uninstall
  <2>1. PICK lost \in SUBSET pending :
           mainQueue' = mainQueue \o Failed(lost, "interrupted")
    BY <1>11 DEF OldProcessEnds, Crash, Uninstall, ProcessEnds, NoProcess
  <2>2. \/ mainQueue' = mainQueue
        \/ mainQueue' = mainQueue \o <<Reply("interrupted")>>
    BY <1>0, <2>1, NothingAppended DEF Failed
  <2>3. UNCHANGED <<connection, valid, armed>> /\ "interrupted" \in Errors
    BY <1>11 DEF OldProcessEnds, Crash, Uninstall, ProcessEnds, NoProcess, Errors
  <2>4. QED
    BY <1>2, <1>10, <2>2, <2>3
<1>12. ASSUME NEW m \in pending, Answer(m) PROVE OnlyInvalidQueued'
  <2>1. /\ UNCHANGED <<connection, valid, armed>> /\ process \in Versions
        /\ mainQueue' = mainQueue \/ mainQueue' = Append(mainQueue, Reply(process))
    BY <1>0, <1>12 DEF Answer, Types
  <2>2. Append(mainQueue, Reply(process)) = mainQueue \o <<Reply(process)>>
    BY <1>0, <2>1, BlockKinds, BlockAppended
  <2>3. QED
    BY <1>2, <1>10, <2>1, <2>2
<1>13. ASSUME NEW m \in pending, FailInvalid(m) PROVE OnlyInvalidQueued'
  <2>1. UNCHANGED <<connection, valid, armed>> /\ "invalid" \in Errors
    BY <1>13 DEF FailInvalid, Errors
  <2>2. mainQueue' = mainQueue \/ mainQueue' = mainQueue \o <<Reply("invalid")>>
    BY <1>0, <1>13, NothingAppended DEF FailInvalid, Failed
  <2>3. QED
    BY <1>2, <1>10, <2>1, <2>2
<1>14. ASSUME NEW c \in Connections, InvalidationHandler(c) PROVE OnlyInvalidQueued'
  <2>1. /\ c = connection /\ ~valid[connection] /\ Dropping = {} /\ c # Nil
        /\ connection' = connection /\ valid' = valid
    BY <1>14 DEF InvalidationHandler, OnlyInvalidQueued, Connections, Nil
  <2>2. \A d \in Connections : ~armed'[d]
    BY <1>14, <2>1 DEF InvalidationHandler, OnlyInvalidQueued
  <2>3. mainQueue' = mainQueue \o <<[do |-> "drop"]>>
    BY <1>14 DEF InvalidationHandler, DropBlock
  <2>4. AtMostOne(Dropping')
    BY <1>0, <2>1, <2>3, BlockKinds, BlockAdded
  <2>5. QED
    BY <2>1, <2>2, <2>4 DEF OnlyInvalidQueued
<1>15. QED
  BY <1>3, <1>4, <1>5, <1>6, <1>7, <1>8, <1>9, <1>11, <1>12, <1>13, <1>14
     DEF Next, MainThread

\* The block queued for an invalid connection never drops a valid one, however
\* clicks, rounds of the installation and invalidations interleave.
THEOREM DropsOnlyInvalidConnections == Spec => DropsOnlyInvalid
<1>1. Init => TypeOK /\ OnlyInvalidQueued
  BY InitTypes, InitOneQuery, InitOnlyInvalidQueued DEF TypeOK
<1>2. TypeOK /\ OnlyInvalidQueued /\ [Next]_vars => (TypeOK /\ OnlyInvalidQueued)'
  BY StepTypes, StepOneQuery, StepOnlyInvalidQueued DEF TypeOK
<1>3. TypeOK /\ OnlyInvalidQueued /\ [Next]_vars
      => [connection # Nil /\ connection' = Nil => ~valid[connection]]_vars
  <2> SUFFICES ASSUME TypeOK, OnlyInvalidQueued, Next, connection # Nil,
                      connection' = Nil
               PROVE  ~valid[connection]
    BY DEF vars, xpc
  <2>0. mainQueue \in Seq(Blocks)
    BY DEF TypeOK, Types
  <2>1. CASE DropConnection
    <3>1. Dropping # {}
      BY <2>0, <2>1, OnlyBlockTaken
         DEF DropConnection, First, Dropping, OnlyInvalidQueued
    <3>2. QED
      BY <3>1 DEF OnlyInvalidQueued
  <2>2. ASSUME NEW message, Send(message) PROVE FALSE
    BY <2>2 DEF Send, Connections, Nil
  <2>3. CASE DidFinishLaunching \/ Install \/ Click
    BY <2>2, <2>3 DEF DidFinishLaunching, Install, Click, AskVersion
  <2>4. QED
    BY <2>1, <2>3
       DEF Next, MainThread, VersionReply, InstallFails, Launch, OldProcessEnds,
           Crash, Uninstall, ProcessEnds, NoProcess, Answer, FailInvalid, Invalidate,
           InvalidationHandler, xpc
<1>4. QED
  BY <1>1, <1>2, <1>3, PTL DEF Spec, DropsOnlyInvalid

-----------------------------------------------------------------------------
(***************************************************************************)
(* What the application may conclude from a reply.                         *)
(***************************************************************************)
Untouched == budget.uninstalls = MaxUninstalls

NoneLingered == budget.lingers = MaxLingers

\* What a reply says of the tool that is installed when the reply is handled.
Sound(what) ==
    /\ what = NewTool /\ Untouched => installed = NewTool
    /\ what \in Versions /\ Untouched /\ NoneLingered => what = installed
    /\ what = "invalid" /\ ~stale => installed # NewTool

RepliesSound == \A i \in Replied : Sound(mainQueue[i].what)

QueriesSound == \A m \in Asked : ~valid[m[2]] /\ ~stale => installed # NewTool

ProcessSound ==
    /\ process = NewTool /\ Untouched => installed = NewTool
    /\ NoneLingered => process \in {NoTool, installed}
    /\ AvailableIsNewest

Known == RepliesSound /\ QueriesSound /\ ProcessSound

LEMMA InitKnown == Init => Known
<1> SUFFICES ASSUME Init PROVE Known
  OBVIOUS
<1>1. Asked = {} /\ Replied = {}
  BY InitOneQuery DEF OneQuery, Init
<1>2. process \in {NoTool, installed} /\ outcome = "not asked"
  BY DEF Init
<1>3. QED
  BY <1>1, <1>2, InstallAssumption
     DEF Known, RepliesSound, QueriesSound, ProcessSound, AvailableIsNewest

LEMMA TakenReply ==
    ASSUME TypeOK, First("reply"), mainQueue' = Tail(mainQueue)
    PROVE  /\ Replied' = {} /\ 1 \in Replied /\ Asked = {}
           /\ Head(mainQueue) = mainQueue[1]
<1>0. /\ OneQuery /\ mainQueue \in Seq(Blocks)
      /\ Replied = BlocksAt("reply", mainQueue)
      /\ Replied' = BlocksAt("reply", mainQueue')
      /\ AtMostOne(Replied)
  BY DEF TypeOK, Types, BlocksAt, Replied, OneQuery, AtMostOne
<1>1. Replied' = {} /\ Replied # {}
  BY <1>0, OnlyBlockTaken DEF First
<1>2. 1 \in DOMAIN mainQueue /\ mainQueue[1] = Head(mainQueue)
  BY <1>0, TailOfQueue DEF First
<1>3. QED
  BY <1>0, <1>1, <1>2 DEF First, Replied, OneQuery

LEMMA RoundSound ==
    ASSUME TypeOK, NEW left, \A m \in left : m[1] # "version", AskVersion(left)
    PROVE  QueriesSound' /\ outcome' = "asking"
<1>1. Asked' = {<<"version", Connected>>} /\ Connected \in Connections
  BY DEF AskVersion, Asked, Send
<1>2. valid'[Connected] \/ stale'
  BY <1>1 DEF AskVersion, Send, Connected, TypeOK, Types
<1>3. QED
  BY <1>1, <1>2 DEF QueriesSound, AskVersion

\* A step after which every reply was there before, or is a sound new one.
LEMMA RepliesKept ==
    ASSUME TypeOK, Known,
           \A what \in Versions \cup Errors : Sound(what) => Sound(what)',
           \/ mainQueue' = mainQueue
           \/ \E added \in Versions \cup Errors :
                 mainQueue' = mainQueue \o <<Reply(added)>> /\ Sound(added)'
           \/ mainQueue' = mainQueue \o DropBlock
           \/ First("drop") /\ mainQueue' = Tail(mainQueue)
    PROVE  RepliesSound'
<1>0. mainQueue \in Seq(Blocks) /\ [do |-> "drop"] \in Blocks
  BY BlockKinds DEF TypeOK, Types
<1>1. ASSUME NEW j \in Replied, NEW i, mainQueue'[i] = mainQueue[j]
      PROVE  Sound(mainQueue[i].what)'
  <2>1. mainQueue[j].what \in Versions \cup Errors
    <3>1. mainQueue[j] \in Blocks /\ mainQueue[j].do = "reply"
      BY <1>0 DEF Replied
    <3>2. QED
      BY <3>1, BlockKinds
  <2>2. Sound(mainQueue[j].what)
    BY DEF Known, RepliesSound
  <2>3. PICK what \in Versions \cup Errors : what = mainQueue[j].what
    BY <2>1
  <2>4. Sound(what)'
    BY <2>2, <2>3
  <2>5. mainQueue'[i].what = what
    BY <1>1, <2>3
  <2>6. QED
    BY <2>4, <2>5 DEF Sound
<1>2. CASE mainQueue' = mainQueue
  BY <1>1, <1>2 DEF RepliesSound, Replied
<1>3. ASSUME NEW added \in Versions \cup Errors,
             mainQueue' = mainQueue \o <<Reply(added)>>, Sound(added)'
      PROVE  RepliesSound'
  <2>1. Reply(added) \in Blocks /\ Reply(added).what = added
    BY <1>3, BlockKinds DEF Reply
  <2>2. ASSUME NEW i \in Replied' PROVE Sound(mainQueue[i].what)'
    <3>1. \/ i \in Replied /\ mainQueue'[i] = mainQueue[i]
          \/ mainQueue'[i].what = added
      BY <1>0, <1>3, <2>1, BlockAppended DEF Replied
    <3>2. CASE mainQueue'[i].what = added
      <4>1. Sound(added)'
        BY <1>3
      <4>2. QED
        BY <3>2, <4>1 DEF Sound
    <3>3. QED
      BY <1>1, <3>1, <3>2
  <2>3. QED
    BY <2>2 DEF RepliesSound
<1>4. CASE mainQueue' = mainQueue \o DropBlock
  <2>1. ASSUME NEW i \in Replied' PROVE i \in Replied /\ mainQueue'[i] = mainQueue[i]
    BY <1>0, <1>4, BlockAppended DEF Replied, DropBlock
  <2>2. QED
    BY <1>1, <2>1 DEF RepliesSound
<1>5. CASE First("drop") /\ mainQueue' = Tail(mainQueue)
  <2>1. ASSUME NEW i \in Replied'
        PROVE  i + 1 \in Replied /\ mainQueue'[i] = mainQueue[i + 1]
    BY <1>0, <1>5, TailOfQueue DEF First, Replied
  <2>2. QED
    BY <1>1, <2>1 DEF RepliesSound
<1>6. QED
  BY <1>2, <1>3, <1>4, <1>5

LEMMA StepKnown == TypeOK /\ Known /\ [Next]_vars => Known'
<1> SUFFICES ASSUME TypeOK, Known, [Next]_vars PROVE Known'
  OBVIOUS
<1>0. /\ Types /\ OneQuery /\ NoTool # NewTool
      /\ RepliesSound /\ QueriesSound /\ ProcessSound
  BY InstallAssumption DEF TypeOK, Known
<1>1. ASSUME UNCHANGED <<installed, budget, stale>>, NEW what PROVE Sound(what) => Sound(what)'
  BY <1>1 DEF Sound, Untouched, NoneLingered
<1>2. ASSUME UNCHANGED <<installed, budget, process, outcome>> PROVE ProcessSound'
  BY <1>0, <1>2 DEF ProcessSound, AvailableIsNewest, Untouched, NoneLingered
<1>3. ASSUME UNCHANGED <<installed, stale, valid>>, Asked' \subseteq Asked
      PROVE  QueriesSound'
  BY <1>0, <1>3 DEF QueriesSound
<1>4. CASE DidFinishLaunching
  <2>1. Asked = {} /\ Replied' = {}
    BY <1>0, <1>4 DEF DidFinishLaunching, OneQuery, Replied
  <2>2. AskVersion(pending) /\ \A m \in pending : m[1] # "version"
    BY <1>4, <2>1 DEF DidFinishLaunching, Asked
  <2>3. QueriesSound' /\ outcome' = "asking"
    BY <2>2, RoundSound
  <2>4. UNCHANGED <<installed, process, budget>>
    BY <1>4 DEF DidFinishLaunching, tool
  <2>5. ProcessSound'
    BY <1>0, <2>3, <2>4
       DEF ProcessSound, AvailableIsNewest, Untouched, NoneLingered
  <2>6. QED
    BY <2>1, <2>3, <2>5 DEF Known, RepliesSound
<1>5. CASE Click
  <2>1. /\ UNCHANGED <<mainQueue, installed, process, outcome, stale>>
        /\ UNCHANGED <<Untouched, NoneLingered>>
        /\ pending' = pending \cup {<<"click", Connected>>}
    BY <1>0, <1>5 DEF Click, tool, Untouched, NoneLingered, Types, Budgets
  <2>2. Asked' = Asked
    <3>1. <<"click", Connected>>[1] # "version"
      OBVIOUS
    <3>2. QED
      BY <2>1, <3>1 DEF Asked
  <2>3. \A c \in Connections : valid[c] => valid'[c]
    BY <1>0, <1>5 DEF Click, Send, Types
  <2>4. \A m \in Asked : m[2] \in Connections
    BY <1>0, InstallAssumption DEF Types, Asked, Connections
  <2>5. QueriesSound'
    BY <1>0, <2>1, <2>2, <2>3, <2>4 DEF QueriesSound
  <2>6. ASSUME NEW what PROVE Sound(what) => Sound(what)'
    BY <2>1 DEF Sound
  <2>7. RepliesSound'
    BY <2>1, <2>6, <1>0 DEF RepliesSound, Replied
  <2>8. ProcessSound'
    BY <1>0, <2>1 DEF ProcessSound, AvailableIsNewest, Untouched, NoneLingered
  <2>9. QED
    BY <2>5, <2>7, <2>8 DEF Known
<1>6. CASE DropConnection
  <2>1. /\ First("drop") /\ mainQueue' = Tail(mainQueue)
        /\ UNCHANGED <<installed, process, budget, outcome, stale, valid, pending>>
    BY <1>6 DEF DropConnection, tool
  <2>2. \A what \in Versions \cup Errors : Sound(what) => Sound(what)'
    BY <1>1, <2>1
  <2>3. RepliesSound'
    BY <2>1, <2>2, RepliesKept
  <2>4. QED
    BY <1>2, <1>3, <2>1, <2>3 DEF Known, Asked
<1>7. CASE VersionReply
  <2>1. /\ First("reply") /\ mainQueue' = Tail(mainQueue)
        /\ UNCHANGED <<installed, process, budget, pending>>
        /\ ~MustInstall(Head(mainQueue).what)
    BY <1>7 DEF VersionReply, tool, xpc
  <2>2. Replied' = {} /\ 1 \in Replied /\ Asked' = {} /\ Head(mainQueue) = mainQueue[1]
    BY <2>1, TakenReply DEF Asked
  <2>3. outcome' = "available" /\ Untouched => installed = NewTool
    BY <1>0, <1>7, <2>1, <2>2
       DEF VersionReply, MustInstall, IsNewest, RepliesSound, Sound
  <2>4. ProcessSound'
    BY <1>0, <2>1, <2>3 DEF ProcessSound, AvailableIsNewest, Untouched, NoneLingered
  <2>5. QED
    BY <2>2, <2>4 DEF Known, RepliesSound, QueriesSound
<1>8. CASE InstallFails
  <2>1. /\ First("reply") /\ mainQueue' = Tail(mainQueue) /\ outcome' = "failed"
        /\ UNCHANGED <<installed, process, budget, pending>>
    BY <1>8 DEF InstallFails, tool, xpc
  <2>2. Replied' = {} /\ Asked' = {}
    BY <2>1, TakenReply DEF Asked
  <2>3. ProcessSound'
    BY <1>0, <2>1 DEF ProcessSound, AvailableIsNewest, Untouched, NoneLingered
  <2>4. QED
    BY <2>2, <2>3 DEF Known, RepliesSound, QueriesSound
<1>9. CASE Install
  <2>1. PICK left \in SUBSET pending : AskVersion(left)
    BY <1>9 DEF Install
  <2>2. Replied' = {} /\ \A m \in left : m[1] # "version"
    BY <1>9, TakenReply DEF Install, Asked
  <2>3. QueriesSound' /\ outcome' = "asking"
    BY <2>1, <2>2, RoundSound
  <2>4. installed' = NewTool /\ (NoneLingered' => process' = NoTool)
    BY <1>0, <1>9, InstallAssumption DEF Install, NoneLingered, Types, Budgets
  <2>5. ProcessSound'
    BY <2>3, <2>4 DEF ProcessSound, AvailableIsNewest
  <2>6. QED
    BY <2>2, <2>3, <2>5 DEF Known, RepliesSound
<1>10. CASE Launch
  <2>1. /\ UNCHANGED <<installed, budget, outcome, stale, valid, pending, mainQueue>>
        /\ process' = installed
    BY <1>10 DEF Launch, xpc
  <2>2. RepliesSound'
    BY <1>0, <1>1, <2>1 DEF RepliesSound, Replied
  <2>3. ProcessSound'
    BY <1>0, <2>1 DEF ProcessSound, AvailableIsNewest, Untouched, NoneLingered
  <2>4. QED
    BY <1>3, <2>1, <2>2, <2>3 DEF Known, Asked
<1>11. CASE OldProcessEnds \/ Crash \/ Uninstall
  <2>1. PICK lost \in SUBSET pending :
           /\ pending' = pending \ lost
           /\ mainQueue' = mainQueue \o Failed(lost, "interrupted")
    BY <1>11 DEF OldProcessEnds, Crash, Uninstall, ProcessEnds, NoProcess
  <2>2. /\ UNCHANGED <<outcome, stale, valid>> /\ process' = NoTool
        /\ Untouched' => Untouched /\ installed' = installed
        /\ NoneLingered' => NoneLingered
        /\ installed' \in {installed, NoTool}
    BY <1>0, <1>11, InstallAssumption
       DEF OldProcessEnds, Crash, Uninstall, ProcessEnds, NoProcess,
       Untouched, NoneLingered,
           Types, Budgets
  <2>3. ASSUME NEW what \in Versions \cup Errors PROVE Sound(what) => Sound(what)'
    BY <1>0, <2>2 DEF Sound
  <2>4. "interrupted" \in Errors /\ Sound("interrupted")'
    BY InstallAssumption DEF Errors, Sound, Versions
  <2>5. mainQueue' = mainQueue \/ mainQueue' = mainQueue \o <<Reply("interrupted")>>
    BY <1>0, <2>1, NothingAppended DEF Failed, Types
  <2>6. RepliesSound'
    BY <2>3, <2>4, <2>5, RepliesKept
  <2>7. QueriesSound'
    BY <1>0, <2>1, <2>2 DEF QueriesSound, Asked
  <2>8. ProcessSound'
    BY <1>0, <2>2 DEF ProcessSound, AvailableIsNewest, Untouched
  <2>9. QED
    BY <2>6, <2>7, <2>8 DEF Known
<1>12. ASSUME NEW m \in pending, Answer(m) PROVE Known'
  <2>1. /\ UNCHANGED <<installed, process, budget, outcome, stale, valid>>
        /\ pending' = pending \ {m} /\ process \in Versions /\ process # NoTool
        /\ mainQueue' = mainQueue \/ mainQueue' = Append(mainQueue, Reply(process))
    BY <1>0, <1>12 DEF Answer, Types, tool
  <2>2. Append(mainQueue, Reply(process)) = mainQueue \o <<Reply(process)>>
    BY <1>0, <2>1, BlockKinds, BlockAppended DEF Types
  <2>3. Sound(process)
    BY <1>0, <2>1, InstallAssumption
       DEF ProcessSound, Sound, Versions
  <2>4. PICK version \in Versions : version = process
    BY <2>1
  <2>5. Sound(version)'
    BY <1>1, <2>1, <2>3, <2>4
  <2>6. mainQueue' = mainQueue \/ mainQueue' = mainQueue \o <<Reply(version)>>
    BY <2>1, <2>2, <2>4
  <2>7. RepliesSound'
    BY <1>1, <2>1, <2>5, <2>6, RepliesKept
  <2>8. QED
    BY <1>2, <1>3, <2>1, <2>7 DEF Known, Asked
<1>13. ASSUME NEW m \in pending, FailInvalid(m) PROVE Known'
  <2>1. /\ UNCHANGED <<installed, process, budget, outcome, stale, valid>>
        /\ pending' = pending \ {m} /\ ~valid[m[2]]
        /\ mainQueue' = mainQueue \o Failed({m}, "invalid")
    BY <1>13 DEF FailInvalid, tool
  <2>0. \A what \in Versions \cup Errors : Sound(what) => Sound(what)'
    BY <1>1, <2>1
  <2>2. ASSUME m[1] = "version" PROVE RepliesSound'
    <3>1. "invalid" \in Errors /\ Sound("invalid")
      BY <1>0, <2>1, <2>2, InstallAssumption
         DEF Errors, Sound, Versions, QueriesSound, Asked
    <3>2. mainQueue' = mainQueue \o <<Reply("invalid")>>
      BY <2>1, <2>2 DEF Failed
    <3>3. QED
      BY <2>0, <3>1, <3>2, RepliesKept
  <2>3. ASSUME m[1] # "version" PROVE RepliesSound'
    <3>1. mainQueue' = mainQueue
      BY <1>0, <2>1, <2>3, NothingAppended DEF Failed, Types
    <3>2. QED
      BY <2>0, <3>1, RepliesKept
  <2>4. RepliesSound'
    BY <2>2, <2>3
  <2>5. QED
    BY <1>2, <1>3, <2>1, <2>4 DEF Known, Asked
<1>14. ASSUME NEW c \in Connections, Invalidate(c) PROVE Known'
  <2>1. /\ UNCHANGED <<installed, process, budget, outcome, stale, pending, mainQueue>>
        /\ installed = NoTool
    BY <1>14 DEF Invalidate, tool
  <2>2. RepliesSound'
    BY <1>0, <1>1, <2>1 DEF RepliesSound, Replied
  <2>3. QueriesSound'
    BY <1>0, <2>1 DEF QueriesSound
  <2>4. QED
    BY <1>2, <2>1, <2>2, <2>3 DEF Known
<1>15. ASSUME NEW c \in Connections, InvalidationHandler(c) PROVE Known'
  <2>1. /\ UNCHANGED <<installed, process, budget, outcome, stale, pending, valid>>
        /\ mainQueue' = mainQueue \o DropBlock
    BY <1>15 DEF InvalidationHandler, tool
  <2>2. \A what \in Versions \cup Errors : Sound(what) => Sound(what)'
    BY <1>1, <2>1
  <2>3. RepliesSound'
    BY <2>1, <2>2, RepliesKept
  <2>4. QED
    BY <1>2, <1>3, <2>1, <2>3 DEF Known, Asked
<1>16. CASE UNCHANGED vars
  <2>1. UNCHANGED <<installed, process, budget, outcome, stale, pending, valid, mainQueue>>
    BY <1>16 DEF vars, xpc, tool
  <2>2. RepliesSound'
    BY <1>0, <1>1, <2>1 DEF RepliesSound, Replied
  <2>3. QED
    BY <1>2, <1>3, <2>1, <2>2 DEF Known, Asked
<1>17. QED
  BY <1>4, <1>5, <1>6, <1>7, <1>8, <1>9, <1>10, <1>11, <1>12, <1>13, <1>14, <1>15,
     <1>16 DEF Next, MainThread

LEMMA KnownHolds == Spec => [](TypeOK /\ Known)
<1>1. Init => TypeOK /\ Known
  BY InitTypes, InitOneQuery, InitKnown DEF TypeOK
<1>2. TypeOK /\ Known /\ [Next]_vars => (TypeOK /\ Known)'
  BY StepTypes, StepOneQuery, StepKnown DEF TypeOK
<1>3. QED
  BY <1>1, <1>2, PTL DEF Spec

\* Once it is found available, the installed tool is the newest, as long as nobody
\* uninstalls it: no reply of an older process, and no error, is taken for it.
THEOREM AvailableToolIsNewest == Spec => []AvailableIsNewest
<1>1. TypeOK /\ Known => AvailableIsNewest
  BY DEF Known, ProcessSound
<1>2. QED
  BY <1>1, KnownHolds, PTL

\* A newest tool is installed again only for the three reasons stated.
THEOREM NeededInstallations == Spec => InstallsOnlyIfNeeded
<1>1. ASSUME TypeOK, Known, Install, installed = NewTool
      PROVE  \/ stale
             \/ budget.lingers # MaxLingers
             \/ budget.uninstalls # MaxUninstalls
  <2> SUFFICES ASSUME ~stale, NoneLingered, Untouched PROVE FALSE
    BY DEF NoneLingered, Untouched
  <2>1. 1 \in Replied /\ Head(mainQueue) = mainQueue[1]
    BY <1>1, TakenReply DEF Install
  <2>2. Sound(Head(mainQueue).what) /\ MustInstall(Head(mainQueue).what)
    BY <1>1, <2>1 DEF Known, RepliesSound, Install
  <2>3. QED
    BY <1>1, <2>2 DEF Sound, MustInstall, IsNewest, IsMissing
<1>2. TypeOK /\ Known
      => [Install /\ installed = NewTool
          => \/ stale
             \/ budget.lingers # MaxLingers
             \/ budget.uninstalls # MaxUninstalls]_vars
  BY <1>1
<1>3. QED
  BY <1>2, KnownHolds, PTL DEF InstallsOnlyIfNeeded

=============================================================================
