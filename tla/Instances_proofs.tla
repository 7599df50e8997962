-------------------------- MODULE Instances_proofs --------------------------
(***************************************************************************)
(* What the connection to an instance (TatConnection) keeps to, for any    *)
(* files, scripts, users, sizes of chunks, caches and outputs.  And for the*)
(* module that manages instances (CvmInstance), for any tasks, scenarios,  *)
(* faults and retries: what a task has brought about when it reports, and  *)
(* what tasks that scale one pool at the same time leave of it.            *)
(***************************************************************************)
EXTENDS TatConnection, CvmInstance, SequenceTheorems, FiniteSetTheorems, TLAPS

-----------------------------------------------------------------------------
(***************************************************************************)
(* The shapes of the variables.                                            *)
(***************************************************************************)
Args       == {f.name : f \in Files} \cup {"no", "id", "ps", "dest"}
Account    == Users \cup {Agent, Root}
Shell      == [do : {"write", "append", "decode", "run", "read"}, arg : Args, n : Nat, chars : Int]
Command    == [content : Shell, user : Account]
Contents   == Seq(Args \X Nat)
Invocation == [op : Nat \ {0}, content : Shell, user : Account,
               status : {"queued", "SUCCESS", "FAILED"}, code : Int, ran : {0, 1},
               output : Contents]
Disk       == [dest : Contents, staging : Contents]
PCs        == {"ready", "ensure", "invoke", "poll"}

Shapes ==
  /\ script \in Seq(Op) /\ op \in Nat \ {0} /\ pc \in PCs /\ step \in Nat \ {0} /\ current \in Nat
  /\ order \in Seq(Command) /\ cmds \in Seq(Command) /\ invs \in Seq(Invocation) /\ disk \in Disk
  /\ outcome \in [DOMAIN script -> {"none", "ok", "failed"}] /\ calm \in [DOMAIN script -> BOOLEAN]
  /\ pc # "ready" => op \in DOMAIN script /\ step <= LastStep

\* Every command in the cache is the one its key names, and so is the one in hand.
Cached ==
  /\ IsInjective(order) /\ ToSet(order) = DOMAIN cache /\ Len(order) <= CacheMax
  /\ \A k \in DOMAIN cache : cache[k] \in DOMAIN cmds /\ cmds[cache[k]] = k
  /\ pc = "invoke" => current \in DOMAIN cmds /\ cmds[current] = Key

Asked(i) ==
  LET o == script[invs[i].op]
  IN  /\ invs[i].op \in DOMAIN script
      /\ invs[i].user = IF Given(o.user) THEN o.user ELSE Agent
      /\ o.kind = "exec" => invs[i].content.arg = o.what

CInv == Shapes /\ Cached /\ \A i \in DOMAIN invs : Asked(i)

-----------------------------------------------------------------------------
Queued(i) == invs[i].status = "queued"

\* Invocations belong to the operations begun so far; those of the operation that
\* runs have ended, but for the one in hand.
Counted ==
  /\ \A i \in DOMAIN invs : /\ Queued(i) <=> invs[i].ran = 0
                            /\ invs[i].op <= op /\ (pc = "ready" => invs[i].op < op)
  /\ \A i \in DOMAIN invs :
       pc # "ready" /\ invs[i].op = op =>
         (pc = "poll" /\ i = current) \/ (invs[i].ran = 1 /\ This.kind = "put")
  /\ pc = "poll" => current \in DOMAIN invs /\ invs[current].op = op /\ invs[current].content = Content
  /\ \A i, j \in DOMAIN invs :
       invs[i].op = invs[j].op /\ script[invs[i].op].kind = "exec" => i = j
  /\ \A n \in DOMAIN script :
       /\ outcome[n] # "none" => n < op
       /\ outcome[n] = "ok" => \A i \in DOMAIN invs : invs[i].op = n => invs[i].ran = 1

OInv == CInv /\ Counted

-----------------------------------------------------------------------------
Prefix(f, n) == [m \in 1 .. n |-> <<f.name, m>>]

Cut(s) == IF Len(s) <= OutputMax THEN s ELSE SubSeq(s, 1, OutputMax)

Truthful == 0 \notin FailedCodes

\* An operation that began with no command at large has only its own to fear.
Solo ==
  pc # "ready" /\ calm[op] =>
    \A i \in DOMAIN invs : Queued(i) => pc = "poll" /\ i = current

\* The staging file holds the chunks that were sent and, in the end, the file does.
Staged ==
  Truthful /\ pc # "ready" /\ calm[op] /\ This.kind = "put" /\ This.file.chars > 0 =>
    /\ step >= 2 /\ (pc = "poll" => Queued(current)) => disk.staging = Prefix(This.file, step - 1)
    /\ pc = "poll" /\ ~Queued(current) /\ invs[current].code = 0 =>
         IF step <= Pieces(This.file) THEN disk.staging = Prefix(This.file, step)
         ELSE disk.dest = Whole(This.file)

\* What a command that reads the file reported was in it while the operation ran.
Seen ==
  Truthful /\ pc = "poll" /\ This.kind = "fetch" /\ ~Queued(current) /\ invs[current].code = 0 =>
    \E s \in seen : s \in Contents /\ invs[current].output = Cut(s)

DInv == OInv /\ Solo /\ Staged /\ Seen

-----------------------------------------------------------------------------
Wholes == {Whole(f) : f \in Files}

Calm == \A n \in DOMAIN script : calm[n] /\ (script[n].kind = "put" => script[n].file.chars > 0)

\* One command at most is at large, and a decode finds a whole file to decode.
Untorn ==
  /\ disk.dest \in {NoFile} \cup Wholes
  /\ \A i, j \in DOMAIN invs : Queued(i) /\ Queued(j) => i = j
  /\ \A i \in DOMAIN invs : Queued(i) /\ invs[i].content.do = "decode" => disk.staging \in Wholes

NInv ==
  /\ DInv
  /\ \A n \in DOMAIN script : n > op \/ (n = op /\ pc = "ready") => calm[n]
  /\ Truthful /\ Calm => Untorn

-----------------------------------------------------------------------------
(* Arithmetic of chunks; sequences.                                        *)

LEMMA ChunkPositive == Chunk \in Nat /\ Chunk >= 1
BY TatAssumption DEF Chunk

LEMMA PiecesAre ==
  ASSUME NEW f \in Files
  PROVE  Pieces(f) \in Nat /\ (f.chars > 0 => Pieces(f) >= 1)
<1>1. f.chars \in Nat
  BY TatAssumption DEF File
<1>2. \A a \in Nat, b \in Nat : b >= 1 => /\ (a + b - 1) \div b \in Nat
                                          /\ a > 0 => (a + b - 1) \div b >= 1
  OBVIOUS
<1> QED BY <1>1, <1>2, ChunkPositive DEF Pieces

LEMMA Grown ==
  ASSUME NEW S, NEW s \in Seq(S), NEW x \in S
  PROVE  /\ Append(s, x) \in Seq(S) /\ Len(s) \in Nat /\ Len(Append(s, x)) = Len(s) + 1
         /\ DOMAIN s = 1 .. Len(s) /\ DOMAIN Append(s, x) = 1 .. Len(s) + 1
         /\ Append(s, x)[Len(s) + 1] = x
         /\ \A i \in DOMAIN s : Append(s, x)[i] = s[i]
<1>1. Append(s, x) \in Seq(S) /\ Len(s) \in Nat /\ Len(Append(s, x)) = Len(s) + 1
  BY AppendProperties, LenProperties
<1>2. DOMAIN s = 1 .. Len(s) /\ DOMAIN Append(s, x) = 1 .. Len(Append(s, x))
  BY <1>1, LenProperties
<1> QED BY <1>1, <1>2, AppendProperties

LEMMA ShellOf ==
  ASSUME NEW f \in Files, NEW n \in Nat \ {0}
  PROVE  PutCommand(f, n) \in Shell
<1>1. f.chars \in Nat /\ f.name \in Args /\ Overhead \in Nat /\ Pieces(f) \in Nat /\ Chunk \in Nat
  BY TatAssumption, PiecesAre, ChunkPositive DEF File, Args
<1>2. \A m \in Nat \ {0} : (m - 1) * Chunk \in Int
  BY <1>1
<1>3. f.chars - (n - 1) * Chunk \in Int
  BY <1>1, <1>2
<1> QED BY <1>1, <1>3 DEF PutCommand, Shell

LEMMA ThisIs ==
  ASSUME Shapes, op \in DOMAIN script
  PROVE  /\ This \in Op /\ Content \in Shell /\ Key \in Command
         /\ LastStep \in Nat /\ LastStep >= 1 /\ This.file \in Files
         /\ This.kind # "put" => LastStep = 1
         /\ Content.do = "decode" => This.kind = "put" /\ step > Pieces(This.file)
<1>1. This \in Op /\ step \in Nat \ {0}
  BY DEF Shapes, This
<1>2. This.file \in Files /\ This.kind \in {"exec", "put", "fetch"}
      /\ This.what \in {"id", "ps"} /\ This.user \in Account
  BY <1>1 DEF Op, Account
<1>3. PutCommand(This.file, step) \in Shell /\ Pieces(This.file) \in Nat
  BY <1>1, <1>2, ShellOf, PiecesAre
<1>4. Content \in Shell
  BY <1>2, <1>3, TatAssumption DEF Content, Shell, Args
<1>5. Key \in Command
  BY <1>2, <1>4 DEF Key, Command
<1>6. Content.do = "decode" => This.kind = "put" /\ step > Pieces(This.file)
  BY <1>1, <1>2, <1>3 DEF Content, PutCommand
<1> QED BY <1>1, <1>2, <1>3, <1>4, <1>5, <1>6 DEF LastStep

\* What a report changes of an invocation.
LEMMA ReportIs ==
  ASSUME invs \in Seq(Invocation), NEW i \in DOMAIN invs, NEW status \in {"SUCCESS", "FAILED"},
         NEW code \in Int, NEW output \in Contents, Report(i, status, code, output)
  PROVE  /\ invs' \in Seq(Invocation) /\ DOMAIN invs' = DOMAIN invs
         /\ \A j \in DOMAIN invs \ {i} : invs'[j] = invs[j]
         /\ invs'[i].op = invs[i].op /\ invs'[i].content = invs[i].content
         /\ invs'[i].user = invs[i].user /\ invs'[i].status = status /\ invs'[i].code = code
         /\ invs'[i].ran = 1 /\ invs'[i].output = output
<1> DEFINE a == [invs[i] EXCEPT !.status = status]
           b == [a EXCEPT !.code = code]
           c == [b EXCEPT !.ran = 1]
           d == [c EXCEPT !.output = output]
<1>0. invs[i] \in Invocation /\ i \in 1 .. Len(invs)
  BY ElementOfSeq, LenProperties
<1>1. /\ a \in Invocation /\ a.op = invs[i].op /\ a.content = invs[i].content
      /\ a.user = invs[i].user /\ a.status = status
  BY <1>0 DEF Invocation
<1>2. invs' = [invs EXCEPT ![i] = d]
  BY DEF Report
<1> HIDE DEF a
<1>3. /\ b \in Invocation /\ b.op = invs[i].op /\ b.content = invs[i].content
      /\ b.user = invs[i].user /\ b.status = status /\ b.code = code
  BY <1>1 DEF Invocation
<1> HIDE DEF b
<1>4. /\ c \in Invocation /\ c.op = invs[i].op /\ c.content = invs[i].content
      /\ c.user = invs[i].user /\ c.status = status /\ c.code = code /\ c.ran = 1
  BY <1>3 DEF Invocation
<1> HIDE DEF c
<1>5. /\ d \in Invocation /\ d.op = invs[i].op /\ d.content = invs[i].content
      /\ d.user = invs[i].user /\ d.status = status /\ d.code = code /\ d.ran = 1
      /\ d.output = output
  BY <1>4 DEF Invocation
<1> HIDE DEF d
<1>6. invs' \in Seq(Invocation)
  BY <1>0, <1>2, <1>5, ExceptSeq
<1> QED BY <1>2, <1>5, <1>6

LEMMA DiskAfter ==
  ASSUME Shapes, NEW c \in Shell, NEW d \in {Effect(c)} \cup Remains(c)
  PROVE  d \in Disk
<1>1. disk \in Disk /\ <<c.arg, c.n>> \in Args \X Nat /\ <<c.arg, 0>> \in Args \X Nat
  BY DEF Shapes, Shell
<1>2. /\ disk.dest \in Contents /\ disk.staging \in Contents /\ NoFile \in Contents
      /\ <<<<c.arg, c.n>>>> \in Contents /\ <<<<c.arg, 0>>>> \in Contents
  BY <1>1 DEF Disk, Contents, NoFile, Args
<1>3. /\ Append2(disk.staging, <<c.arg, c.n>>) \in Contents
      /\ Append2(disk.staging, <<c.arg, 0>>) \in Contents
  BY <1>1, <1>2, AppendProperties DEF Append2, Contents
<1>4. Effect(c) \in Disk
  BY <1>1, <1>2, <1>3 DEF Effect, Disk
<1> QED BY <1>1, <1>2, <1>3, <1>4 DEF Remains, Disk
-----------------------------------------------------------------------------
(* What is cached, and what is asked for.                                  *)

LEMMA Evict ==
  ASSUME order \in Seq(Command), NEW C, NEW k \in Command, k \notin C,
         IsInjective(order), ToSet(order) = C, Len(order) <= CacheMax,
         NEW keys, keys = IF Cardinality(C) >= CacheMax THEN Tail(Append(order, k)) ELSE Append(order, k)
  PROVE  /\ keys \in Seq(Command) /\ IsInjective(keys) /\ Len(keys) <= CacheMax
         /\ ToSet(keys) \subseteq C \cup {k}
<1> DEFINE full == Append(order, k)
           n == Len(order)
<1>1. /\ n \in Nat /\ CacheMax \in Nat \ {0} /\ DOMAIN order = 1 .. n
      /\ full \in Seq(Command) /\ Len(full) = n + 1 /\ DOMAIN full = 1 .. n + 1
      /\ full[n + 1] = k /\ \A i \in 1 .. n : full[i] = order[i]
  BY Grown, TatAssumption
<1>2. Cardinality(C) = n
  <2>1. order \in [1 .. n -> C]
    BY <1>1 DEF ToSet
  <2>2. order \in Bijection(1 .. n, C)
    BY <1>1, <2>1 DEF Bijection, Injection, Surjection, ToSet
  <2> QED BY <1>1, <2>2, FS_CountingElements DEF ExistsBijection
<1>0. \A i \in 1 .. n : order[i] \in C
  BY <1>1 DEF ToSet
<1>3. \A i \in 1 .. n : order[i] # k
  BY <1>0
<1> HIDE DEF full, n
<1>4. \A i, j \in 1 .. n + 1 : full[i] = full[j] => i = j
  <2> SUFFICES ASSUME NEW i \in 1 .. n + 1, NEW j \in 1 .. n + 1, full[i] = full[j] PROVE i = j
    OBVIOUS
  <2>1. (i \in 1 .. n \/ i = n + 1) /\ (j \in 1 .. n \/ j = n + 1)
    BY <1>1
  <2>2. CASE i \in 1 .. n /\ j \in 1 .. n
    <3>1. order[i] = order[j]
      BY <1>1, <2>2
    <3> QED BY <1>1, <2>2, <3>1 DEF IsInjective
  <2>3. CASE i = n + 1 /\ j \in 1 .. n
    BY <1>1, <1>3, <2>3
  <2>4. CASE j = n + 1 /\ i \in 1 .. n
    BY <1>1, <1>3, <2>4
  <2> QED BY <2>1, <2>2, <2>3, <2>4
<1>5. \A i \in 1 .. n + 1 : full[i] \in C \cup {k}
  BY <1>0, <1>1
<1>6. CASE Cardinality(C) >= CacheMax
  <2>1. keys = Tail(full)
    BY <1>6 DEF full
  <2>2. /\ Tail(full) \in Seq(Command) /\ Len(Tail(full)) = n
        /\ \A i \in 1 .. n : Tail(full)[i] = full[i + 1]
    BY <1>1, HeadTailProperties
  <2>3. DOMAIN Tail(full) = 1 .. n
    BY <2>2, LenProperties
  <2>4. n <= CacheMax
    BY DEF n
  <2>5. \A i, j \in 1 .. n : Tail(full)[i] = Tail(full)[j] => i = j
    BY <1>1, <1>4, <2>2
  <2>6. \A i \in 1 .. n : Tail(full)[i] \in C \cup {k}
    BY <1>1, <1>5, <2>2
  <2> DEFINE kept == Tail(full)
  <2> HIDE DEF kept
  <2>7. /\ kept \in Seq(Command) /\ Len(kept) <= CacheMax /\ DOMAIN kept = 1 .. n
        /\ \A i, j \in 1 .. n : kept[i] = kept[j] => i = j
        /\ \A i \in 1 .. n : kept[i] \in C \cup {k}
    BY <2>2, <2>3, <2>4, <2>5, <2>6 DEF kept
  <2>8. IsInjective(kept)
    BY <2>7 DEF IsInjective
  <2>9. ToSet(kept) \subseteq C \cup {k}
    BY <2>7 DEF ToSet
  <2> QED BY <2>1, <2>7, <2>8, <2>9 DEF kept
<1>7. CASE ~(Cardinality(C) >= CacheMax)
  <2>1. keys = full
    BY <1>7 DEF full
  <2>2. n + 1 <= CacheMax
    BY <1>1, <1>2, <1>7
  <2> QED BY <1>1, <1>4, <1>5, <2>1, <2>2 DEF IsInjective, ToSet
<1> QED BY <1>6, <1>7

LEMMA Members ==
  ASSUME Shapes
  PROVE  /\ DOMAIN script = 1 .. Len(script) /\ Len(script) \in Nat /\ DOMAIN script \subseteq Nat
         /\ \A i \in DOMAIN invs : invs[i] \in Invocation /\ invs[i].op \in Nat /\ invs[i].ran \in {0, 1}
<1>1. script \in Seq(Op) /\ invs \in Seq(Invocation)
  BY DEF Shapes
<1>2. DOMAIN script = 1 .. Len(script) /\ Len(script) \in Nat
  BY <1>1, LenProperties
<1>3. \A i \in DOMAIN invs : invs[i] \in Invocation
  BY <1>1, ElementOfSeq, LenProperties
<1>4. \A v \in Invocation : v.op \in Nat /\ v.ran \in {0, 1}
  BY DEF Invocation
<1> QED BY <1>2, <1>3, <1>4

\* The invocation that _invoke asks for.
Fresh == [op |-> op, content |-> Content, user |-> IF Given(This.user) THEN This.user ELSE Agent,
          status |-> "queued", code |-> 0, ran |-> 0, output |-> NoFile]

LEMMA NoFileIs == NoFile \in Contents
<1>1. <<"no", 0>> \in Args \X Nat
  BY DEF Args
<1> QED BY <1>1 DEF NoFile, Contents

LEMMA FreshIs ==
  ASSUME CInv, pc = "invoke"
  PROVE  Invoked(current) = Append(invs, Fresh) /\ Fresh \in Invocation
<1>1. op \in DOMAIN script /\ op \in Nat \ {0}
  BY DEF CInv, Shapes
<1>2. This \in Op /\ Content \in Shell
  BY <1>1, ThisIs DEF CInv
<1>3. cmds[current] = Key
  BY DEF CInv, Cached
<1>4. cmds[current].content = Content /\ cmds[current].user = This.user
  BY <1>3 DEF Key
<1>5. RunsAs(current) = IF Given(This.user) THEN This.user ELSE Agent
  BY <1>4 DEF RunsAs
<1>6. (IF Given(This.user) THEN This.user ELSE Agent) \in Account
  BY <1>2 DEF Op, Account
<1>7. Fresh \in Invocation
  BY <1>1, <1>2, <1>6, NoFileIs DEF Fresh, Invocation
<1> QED BY <1>4, <1>5, <1>7 DEF Invoked, Fresh

LEMMA OutputIs ==
  ASSUME Shapes
  PROVE  Output \in Contents /\ Output = Cut(disk.dest)
<1>1. disk.dest \in Contents /\ OutputMax \in Nat \ {0}
  BY TatAssumption DEF Shapes, Disk
<1>2. Len(disk.dest) \in Nat
  BY <1>1, LenProperties DEF Contents
<1>3. ~(Len(disk.dest) <= OutputMax) => SubSeq(disk.dest, 1, OutputMax) \in Contents
  <2> HAVE ~(Len(disk.dest) <= OutputMax)
  <2>1. \A m \in 1 .. OutputMax : disk.dest[m] \in Args \X Nat
    BY <1>1, <1>2, ElementOfSeq DEF Contents
  <2> QED BY <1>1, <1>2, <2>1, SubSeqProperties DEF Contents
<1> QED BY <1>1, <1>3 DEF Output, Cut

\* What the agent changes.
LEMMA AgentIs ==
  ASSUME Shapes, NEW i \in DOMAIN invs, AgentRuns(i)
  PROVE  /\ invs' \in Seq(Invocation) /\ DOMAIN invs' = DOMAIN invs /\ disk' \in Disk
         /\ \A j \in DOMAIN invs \ {i} : invs'[j] = invs[j]
         /\ invs[i].status = "queued" /\ invs'[i].status # "queued" /\ invs'[i].ran = 1
         /\ invs'[i].op = invs[i].op /\ invs'[i].content = invs[i].content
         /\ invs'[i].user = invs[i].user
         /\ \/ /\ CanDo(invs[i].content) /\ disk' = Effect(invs[i].content)
               /\ invs'[i].code = 0 /\ invs'[i].output = Output
            \/ /\ disk' \in IF CanDo(invs[i].content) THEN Remains(invs[i].content) ELSE {disk}
               /\ invs'[i].code \in FailedCodes
<1>1. invs \in Seq(Invocation) /\ invs[i] \in Invocation
  BY ElementOfSeq, LenProperties DEF Shapes
<1>2. invs[i].content \in Shell /\ invs[i].status = "queued"
  BY <1>1 DEF Invocation, AgentRuns
<1>3. CASE CanDo(invs[i].content) /\ disk' = Effect(invs[i].content) /\ Report(i, "SUCCESS", 0, Output)
  <2>1. disk' \in Disk
    BY <1>2, <1>3, DiskAfter
  <2>2. Output \in Contents
    BY OutputIs
  <2> QED BY <1>1, <1>2, <1>3, <2>1, <2>2, ReportIs
<1>4. ASSUME NEW code \in FailedCodes, Report(i, "FAILED", code, NoFile),
             disk' \in IF CanDo(invs[i].content) THEN Remains(invs[i].content) ELSE {disk}
      PROVE  disk' \in Disk /\ code \in Int
  <2>1. disk \in Remains(invs[i].content)
    BY DEF Remains
  <2> QED BY <1>2, <1>4, <2>1, DiskAfter, TatAssumption
<1>5. ASSUME NEW code \in FailedCodes, Report(i, "FAILED", code, NoFile),
             disk' \in IF CanDo(invs[i].content) THEN Remains(invs[i].content) ELSE {disk}
      PROVE  /\ invs' \in Seq(Invocation) /\ DOMAIN invs' = DOMAIN invs
             /\ \A j \in DOMAIN invs \ {i} : invs'[j] = invs[j]
             /\ invs'[i].op = invs[i].op /\ invs'[i].content = invs[i].content
             /\ invs'[i].user = invs[i].user /\ invs'[i].status = "FAILED" /\ invs'[i].code = code
             /\ invs'[i].ran = 1
  BY <1>1, <1>4, <1>5, NoFileIs, ReportIs
<1>6. CASE /\ disk' \in IF CanDo(invs[i].content) THEN Remains(invs[i].content) ELSE {disk}
           /\ \E code \in FailedCodes : Report(i, "FAILED", code, NoFile)
  <2>1. PICK code \in FailedCodes : Report(i, "FAILED", code, NoFile)
    BY <1>6
  <2>2. disk' \in Disk
    BY <1>4, <1>6, <2>1
  <2>3. /\ invs' \in Seq(Invocation) /\ DOMAIN invs' = DOMAIN invs
        /\ \A j \in DOMAIN invs \ {i} : invs'[j] = invs[j]
        /\ invs'[i].op = invs[i].op /\ invs'[i].content = invs[i].content
        /\ invs'[i].user = invs[i].user /\ invs'[i].status = "FAILED" /\ invs'[i].code = code
        /\ invs'[i].ran = 1
    BY <1>5, <1>6, <2>1
  <2> QED BY <1>2, <1>6, <2>2, <2>3
<1> QED BY <1>3, <1>6 DEF AgentRuns

LEMMA InitCInv == Init => CInv
<1> SUFFICES ASSUME Init PROVE CInv
  OBVIOUS
<1>1. script \in Seq(Op)
  BY TatAssumption DEF Init
<1>2. order = <<>> /\ cache = <<>> /\ cmds = <<>> /\ invs = <<>> /\ CacheMax \in Nat
  BY TatAssumption DEF Init
<1>3. DOMAIN order = {} /\ DOMAIN cache = {} /\ DOMAIN cmds = {} /\ DOMAIN invs = {} /\ Len(order) = 0
  BY <1>2
<1>4. order \in Seq(Command) /\ cmds \in Seq(Command) /\ invs \in Seq(Invocation)
  BY <1>2, EmptySeq
<1>5. disk \in Disk
  BY NoFileIs DEF Init, Disk
<1>6. Shapes
  BY <1>1, <1>4, <1>5 DEF Init, Shapes, PCs
<1>7. IsInjective(order) /\ ToSet(order) = {}
  BY <1>3 DEF IsInjective, ToSet
<1> QED BY <1>2, <1>3, <1>6, <1>7 DEF CInv, Cached, Init

LEMMA BeginC == CInv /\ Begin => CInv'
<1> SUFFICES ASSUME CInv, Begin PROVE CInv'
  OBVIOUS
<1>1. Shapes /\ Cached
  BY DEF CInv
<1>2. op \in DOMAIN script /\ DOMAIN script = 1 .. Len(script)
  BY <1>1, LenProperties DEF Shapes, Begin
<1>3. step' = 1 /\ step' <= LastStep'
  <2>1. LastStep \in Nat /\ LastStep >= 1
    BY <1>1, <1>2, ThisIs
  <2>2. LastStep' = LastStep
    BY DEF Begin, LastStep, This
  <2> QED BY <2>1, <2>2 DEF Begin
<1>4. CASE UNCHANGED <<cache, order>>
  <2>1. Shapes'
    BY <1>1, <1>2, <1>3, <1>4 DEF Shapes, Begin, PCs
  <2>2. Cached'
    BY <1>1, <1>4 DEF Cached, Begin
  <2> QED BY <2>1, <2>2 DEF CInv, Asked, Begin
<1>5. CASE cache' = <<>> /\ order' = <<>>
  <2>1. /\ order' \in Seq(Command) /\ DOMAIN order' = {} /\ DOMAIN cache' = {} /\ Len(order') = 0
        /\ CacheMax \in Nat
    BY <1>5, EmptySeq, TatAssumption
  <2>2. Shapes'
    BY <1>1, <1>2, <1>3, <2>1 DEF Shapes, Begin, PCs
  <2>3. IsInjective(order') /\ ToSet(order') = {}
    BY <2>1 DEF IsInjective, ToSet
  <2>4. Cached'
    BY <1>1, <2>1, <2>3 DEF Cached, Begin
  <2> QED BY <2>2, <2>4 DEF CInv, Asked, Begin
<1> QED BY <1>4, <1>5 DEF Begin

LEMMA EnsureC == CInv /\ Ensure => CInv'
<1> SUFFICES ASSUME CInv, Ensure PROVE CInv'
  OBVIOUS
<1>1. Shapes /\ Cached /\ op \in DOMAIN script
  BY DEF CInv, Shapes, Ensure
<1>2. This \in Op /\ Content \in Shell /\ Key \in Command
  BY <1>1, ThisIs
<1>3. cmds \in Seq(Command) /\ order \in Seq(Command) /\ DOMAIN cmds = 1 .. Len(cmds) /\ Len(cmds) \in Nat
  BY <1>1, LenProperties DEF Shapes
<1>4. Key = [content |-> Content, user |-> This.user]
  BY DEF Key
<1>5. CASE Key \in DOMAIN cache /\ current' = cache[Key] /\ pc' = "invoke"
           /\ UNCHANGED <<op, cache, order, cmds, outcome>>
  <2>1. current' \in DOMAIN cmds /\ cmds[current'] = Key
    BY <1>1, <1>5 DEF Cached
  <2>2. Key' = Key /\ LastStep' = LastStep
    BY <1>5 DEF Key, Content, This, LastStep, Ensure
  <2>3. Shapes'
    <3>1. current' \in Nat /\ UNCHANGED <<script, step, invs, disk, calm>> /\ pc = "ensure"
      BY <1>3, <2>1 DEF Ensure
    <3> QED BY <1>1, <1>5, <2>2, <3>1 DEF Shapes, PCs
  <2>4. Cached'
    BY <1>1, <1>5, <2>1, <2>2 DEF Cached
  <2> QED BY <1>5, <2>3, <2>4 DEF CInv, Asked, Ensure
<1>6. CASE /\ Key \notin DOMAIN cache
           /\ cmds' = Append(cmds, [content |-> Content, user |-> This.user])
           /\ current' = Len(cmds')
           /\ LET full == Append(order, Key)
                  over == Cardinality(DOMAIN cache) >= CacheMax
                  keys == IF over THEN Tail(full) ELSE full
              IN  /\ order' = keys
                  /\ cache' = [k \in ToSet(keys) |-> IF k = Key THEN current' ELSE cache[k]]
           /\ pc' = "invoke"
           /\ UNCHANGED <<op, outcome>>
  <2>1. /\ cmds' \in Seq(Command) /\ DOMAIN cmds' = 1 .. Len(cmds) + 1 /\ current' = Len(cmds) + 1
        /\ cmds'[current'] = Key /\ \A c \in DOMAIN cmds : cmds'[c] = cmds[c]
    BY <1>2, <1>3, <1>4, <1>6, Grown
  <2>2. Key' = Key /\ LastStep' = LastStep
    BY <1>6 DEF Key, Content, This, LastStep, Ensure
  <2>3. order' = IF Cardinality(DOMAIN cache) >= CacheMax THEN Tail(Append(order, Key)) ELSE Append(order, Key)
    BY <1>6
  <2>4. cache' = [k \in ToSet(order') |-> IF k = Key THEN current' ELSE cache[k]]
    BY <1>6, <2>3
  <2>5. IsInjective(order) /\ ToSet(order) = DOMAIN cache /\ Len(order) <= CacheMax
    BY <1>1 DEF Cached
  <2>6. /\ order' \in Seq(Command) /\ IsInjective(order') /\ Len(order') <= CacheMax
        /\ ToSet(order') \subseteq DOMAIN cache \cup {Key}
    BY <1>2, <1>3, <1>6, <2>3, <2>5, Evict
  <2>7. Shapes'
    <3>1. current' \in Nat /\ UNCHANGED <<script, step, invs, disk, calm>> /\ pc = "ensure"
      BY <1>3, <2>1 DEF Ensure
    <3>2. pc' = "invoke" /\ UNCHANGED <<op, outcome>>
      BY <1>6
    <3> QED BY <1>1, <2>1, <2>2, <2>6, <3>1, <3>2 DEF Shapes, PCs
  <2>8. \A k \in DOMAIN cache' : cache'[k] \in DOMAIN cmds' /\ cmds'[cache'[k]] = k
    <3> TAKE k \in DOMAIN cache'
    <3>1. k \in ToSet(order') /\ cache'[k] = IF k = Key THEN current' ELSE cache[k]
      BY <2>4
    <3>2. k = Key \/ (k \in DOMAIN cache /\ cache[k] \in DOMAIN cmds /\ cmds[cache[k]] = k)
      BY <1>1, <2>6, <3>1 DEF Cached
    <3> QED BY <1>3, <2>1, <3>1, <3>2
  <2>9. DOMAIN cache' = ToSet(order')
    BY <2>4
  <2>10. Cached'
    BY <1>3, <2>1, <2>2, <2>6, <2>8, <2>9 DEF Cached
  <2> QED BY <2>7, <2>10 DEF CInv, Asked, Ensure
<1>7. CASE End("failed") /\ UNCHANGED <<cache, order, current, cmds>>
  <2>1. Shapes'
    BY <1>1, <1>7 DEF Shapes, Ensure, End, PCs
  <2>2. Cached'
    BY <1>1, <1>7 DEF Cached, End
  <2> QED BY <1>7, <2>1, <2>2 DEF CInv, Asked, Ensure
<1> QED BY <1>5, <1>6, <1>7 DEF Ensure

\* What _invoke changes of the invocations.
LEMMA InvokeIs ==
  ASSUME CInv, Invoke
  PROVE  /\ op \in DOMAIN script /\ This \in Op
         /\ \/ /\ invs' = Append(invs, Fresh) /\ current' = Len(invs) + 1 /\ pc' = "poll"
               /\ UNCHANGED <<op, outcome>>
            \/ /\ End("failed") /\ UNCHANGED current
               /\ invs' = Append(invs, Fresh) \/ invs' = invs
<1>1. pc = "invoke" /\ Shapes /\ op \in DOMAIN script
  BY DEF Invoke, CInv, Shapes
<1>2. Invoked(current) = Append(invs, Fresh) /\ Fresh \in Invocation
  BY <1>1, FreshIs
<1>3. Len(Append(invs, Fresh)) = Len(invs) + 1
  BY <1>1, <1>2, Grown DEF Shapes
<1>4. This \in Op
  BY <1>1, ThisIs
<1> QED BY <1>1, <1>2, <1>3, <1>4 DEF Invoke

\* The invocations after an InvokeCommand that reached the API.
LEMMA AppendedIs ==
  ASSUME CInv, pc = "invoke", op \in DOMAIN script, invs' = Append(invs, Fresh)
  PROVE  /\ invs \in Seq(Invocation) /\ invs' \in Seq(Invocation) /\ Len(invs) \in Nat
         /\ DOMAIN invs = 1 .. Len(invs) /\ DOMAIN invs' = 1 .. Len(invs) + 1
         /\ invs'[Len(invs) + 1] = Fresh
         /\ \A i \in DOMAIN invs : invs'[i] = invs[i]
         /\ Len(invs) + 1 \in DOMAIN invs' /\ Len(invs) + 1 \notin DOMAIN invs
<1>1. invs \in Seq(Invocation) /\ Fresh \in Invocation
  BY FreshIs DEF CInv, Shapes
<1> QED BY <1>1, Grown

LEMMA InvokeC == CInv /\ Invoke => CInv'
<1> SUFFICES ASSUME CInv, Invoke PROVE CInv'
  OBVIOUS
<1>1. Shapes /\ Cached /\ pc = "invoke" /\ op \in DOMAIN script /\ This \in Op
  BY InvokeIs DEF CInv, Invoke
<1>2. UNCHANGED <<script, step, cache, order, cmds, disk, fetched, calm, seen>>
  BY DEF Invoke
<1>3. invs \in Seq(Invocation) /\ Len(invs) \in Nat
  BY <1>1, LenProperties DEF Shapes
<1>4. CASE invs' = Append(invs, Fresh)
  <2>1. /\ invs' \in Seq(Invocation) /\ DOMAIN invs' = 1 .. Len(invs) + 1
        /\ DOMAIN invs = 1 .. Len(invs) /\ invs'[Len(invs) + 1] = Fresh
        /\ \A i \in DOMAIN invs : invs'[i] = invs[i]
    BY <1>1, <1>4, AppendedIs
  <2>2. /\ Fresh.op = op /\ Fresh.user = IF Given(This.user) THEN This.user ELSE Agent
        /\ This.kind = "exec" => Fresh.content.arg = This.what
    BY <1>1 DEF Fresh, Content
  <2>3. \A i \in DOMAIN invs' : Asked(i)'
    <3> SUFFICES ASSUME NEW i \in DOMAIN invs' PROVE Asked(i)'
      OBVIOUS
    <3>1. CASE i \in DOMAIN invs
      BY <1>2, <2>1, <3>1 DEF CInv, Asked
    <3>2. CASE i = Len(invs) + 1
      <4>1. invs'[i] = Fresh /\ script' = script /\ script[op] = This
        BY <1>2, <2>1, <3>2 DEF This
      <4> QED BY <1>1, <2>2, <4>1 DEF Asked
    <3> QED BY <1>3, <2>1, <3>1, <3>2
  <2>4. Shapes'
    <3>1. CASE current' = Len(invs) + 1 /\ pc' = "poll" /\ UNCHANGED <<op, outcome>>
      <4>1. current' \in Nat /\ LastStep' = LastStep
        BY <1>2, <1>3, <3>1 DEF LastStep, This
      <4> QED BY <1>1, <1>2, <2>1, <3>1, <4>1 DEF Shapes, PCs
    <3>2. CASE End("failed") /\ UNCHANGED current
      BY <1>1, <1>2, <2>1, <3>2 DEF Shapes, End, PCs
    <3> QED BY <3>1, <3>2, InvokeIs
  <2>5. Cached'
    BY <1>1, <1>2, InvokeIs DEF Cached, End
  <2> QED BY <2>3, <2>4, <2>5 DEF CInv
<1>5. CASE invs' = invs /\ End("failed") /\ UNCHANGED current
  BY <1>1, <1>2, <1>5 DEF CInv, Shapes, Cached, Asked, End, PCs
<1> QED BY <1>4, <1>5, InvokeIs

LEMMA EndedC == CInv /\ Ended => CInv'
<1> SUFFICES ASSUME CInv, Ended PROVE CInv'
  OBVIOUS
<1>1. Shapes /\ Cached /\ pc = "poll" /\ op \in DOMAIN script
  BY DEF CInv, Shapes, Ended
<1>2. LastStep \in Nat
  BY <1>1, ThisIs
<1>3. \/ step < LastStep /\ step' = step + 1 /\ pc' = "ensure" /\ UNCHANGED <<op, outcome>>
      \/ \E r \in {"ok", "failed"} : End(r) /\ UNCHANGED step
  BY DEF Ended
<1>4. UNCHANGED <<script, cache, order, current, cmds, invs, disk, calm, seen>>
  BY DEF Ended
<1>5. CASE step < LastStep /\ step' = step + 1 /\ pc' = "ensure" /\ UNCHANGED <<op, outcome>>
  <2>1. LastStep' = LastStep
    BY <1>4, <1>5 DEF LastStep, This
  <2>2. Shapes'
    BY <1>1, <1>2, <1>4, <1>5, <2>1 DEF Shapes, PCs
  <2> QED BY <1>1, <1>4, <1>5, <2>2 DEF CInv, Cached, Asked
<1>6. CASE \E r \in {"ok", "failed"} : End(r) /\ UNCHANGED step
  BY <1>1, <1>4, <1>6 DEF CInv, Shapes, Cached, Asked, End, PCs
<1> QED BY <1>3, <1>5, <1>6

LEMMA GiveUpC == CInv /\ GiveUp => CInv'
BY DEF CInv, Shapes, Cached, Asked, GiveUp, End, PCs

LEMMA AgentC ==
  ASSUME CInv, NEW i \in DOMAIN invs, AgentRuns(i)
  PROVE  CInv'
<1>1. UNCHANGED <<script, op, pc, step, cache, order, current, cmds, fetched, outcome, calm>>
  BY DEF AgentRuns
<1>2. Shapes /\ Cached
  BY DEF CInv
<1>3. /\ invs' \in Seq(Invocation) /\ DOMAIN invs' = DOMAIN invs /\ disk' \in Disk
      /\ \A j \in DOMAIN invs \ {i} : invs'[j] = invs[j]
      /\ invs'[i].op = invs[i].op /\ invs'[i].content = invs[i].content
      /\ invs'[i].user = invs[i].user
  BY <1>2, AgentIs
<1>4. Shapes'
  BY <1>1, <1>2, <1>3 DEF Shapes, LastStep, This
<1>5. Cached'
  BY <1>1, <1>2 DEF Cached, Key, Content, This
<1>6. \A j \in DOMAIN invs' : Asked(j)'
  BY <1>1, <1>3 DEF CInv, Asked
<1> QED BY <1>4, <1>5, <1>6 DEF CInv

LEMMA CInvariance == Spec => []CInv
<1>1. CInv /\ [Next]_vars => CInv'
  <2> SUFFICES ASSUME CInv, [Next]_vars PROVE CInv'
    OBVIOUS
  <2>1. CASE UNCHANGED vars
    BY <2>1 DEF vars, CInv, Shapes, Cached, Asked, Key, Content, This, LastStep
  <2> QED BY <2>1, BeginC, EnsureC, InvokeC, EndedC, GiveUpC, AgentC DEF Next
<1> QED BY <1>1, InitCInv, PTL DEF Spec

\* _ensure_command keeps its cache and the order of eviction in step, never keeps more
\* commands than it may, and gives no operation the command of another: what TAT
\* runs is what exec_command was asked to run, as the user of its become.
THEOREM RunsAsAskedAlways == Spec => []RunsAsAsked
<1>1. CInv => RunsAsAsked
  BY DEF CInv, Cached, Asked, RunsAsAsked
<1> QED BY <1>1, CInvariance, PTL

-----------------------------------------------------------------------------
(* One command for each operation, and its end.                            *)

\* An operation that ends without success.
LEMMA FailedO ==
  ASSUME OInv, pc # "ready", End("failed"), UNCHANGED <<script, invs>>
  PROVE  Counted'
<1>1. op \in Nat /\ op' = op + 1 /\ pc' = "ready" /\ op \in DOMAIN script /\ DOMAIN script \subseteq Nat
  BY Members DEF OInv, CInv, Shapes, End
<1>2. \A i \in DOMAIN invs : invs[i].op \in Nat
  BY Members DEF OInv, CInv
<1>3. \A n \in DOMAIN script : outcome'[n] = IF n = op THEN "failed" ELSE outcome[n]
  BY <1>1 DEF End, OInv, CInv, Shapes
<1>4. \A i \in DOMAIN invs' : /\ Queued(i)' <=> invs'[i].ran = 0
                              /\ invs'[i].op <= op' /\ (pc' = "ready" => invs'[i].op < op')
  BY <1>1, <1>2 DEF OInv, Counted, Queued
<1>5. \A n \in DOMAIN script' :
        /\ outcome'[n] # "none" => n < op'
        /\ outcome'[n] = "ok" => \A i \in DOMAIN invs' : invs'[i].op = n => invs'[i].ran = 1
  BY <1>1, <1>3 DEF OInv, Counted
<1> QED BY <1>1, <1>4, <1>5 DEF OInv, Counted

LEMMA InitOInv == Init => OInv
<1> SUFFICES ASSUME Init PROVE OInv
  OBVIOUS
<1>1. DOMAIN invs = {} /\ pc = "ready" /\ \A n \in DOMAIN script : outcome[n] = "none"
  BY DEF Init
<1> QED BY <1>1, InitCInv DEF OInv, Counted

LEMMA BeginO == OInv /\ Begin => Counted'
<1> SUFFICES ASSUME OInv, Begin PROVE Counted'
  OBVIOUS
<1>1. UNCHANGED <<script, op, invs, outcome>> /\ pc = "ready" /\ pc' = "ensure" /\ op \in Nat
  BY DEF Begin, OInv, CInv, Shapes
<1>2. \A i \in DOMAIN invs : invs[i].op \in Nat /\ invs[i].op < op
  BY <1>1, Members DEF OInv, Counted, CInv
<1>3. \A i \in DOMAIN invs' : invs'[i].op # op'
  BY <1>1, <1>2
<1> QED BY <1>1, <1>2, <1>3 DEF OInv, Counted, Queued

LEMMA EnsureO == OInv /\ Ensure => Counted'
<1> SUFFICES ASSUME OInv, Ensure PROVE Counted'
  OBVIOUS
<1>1. pc = "ensure" /\ UNCHANGED <<script, step, invs>>
  BY DEF Ensure
<1>2. CASE pc' = "invoke" /\ UNCHANGED <<op, outcome>>
  BY <1>1, <1>2 DEF OInv, Counted, Queued, This
<1>3. CASE End("failed")
  BY <1>1, <1>3, FailedO
<1> QED BY <1>2, <1>3 DEF Ensure

LEMMA InvokeO == OInv /\ Invoke => Counted'
<1> SUFFICES ASSUME OInv, Invoke PROVE Counted'
  OBVIOUS
<1>1. CInv /\ pc = "invoke" /\ UNCHANGED <<script, step>> /\ op \in DOMAIN script
  BY InvokeIs DEF Invoke, OInv
<1>2. op \in Nat /\ DOMAIN script \subseteq Nat
  BY <1>1, Members DEF CInv, Shapes
<1>3. CASE invs' = invs /\ End("failed")
  BY <1>1, <1>3, FailedO
<1>4. CASE invs' = Append(invs, Fresh)
  <2> DEFINE k == Len(invs) + 1
  <2>1. /\ k \in DOMAIN invs' /\ k \notin DOMAIN invs /\ DOMAIN invs' = DOMAIN invs \cup {k}
        /\ invs'[k] = Fresh /\ \A i \in DOMAIN invs : invs'[i] = invs[i]
    <3>1. /\ DOMAIN invs = 1 .. Len(invs) /\ DOMAIN invs' = 1 .. Len(invs) + 1 /\ Len(invs) \in Nat
          /\ k \in DOMAIN invs' /\ k \notin DOMAIN invs
          /\ invs'[k] = Fresh /\ \A i \in DOMAIN invs : invs'[i] = invs[i]
      BY <1>1, <1>4, AppendedIs
    <3> QED BY <3>1
  <2>2. Fresh.op = op /\ Fresh.ran = 0 /\ Fresh.status = "queued" /\ Fresh.content = Content
    BY DEF Fresh
  <2> HIDE DEF k
  <2>3. \A i \in DOMAIN invs : /\ Queued(i) <=> invs[i].ran = 0
                               /\ invs[i].op \in Nat /\ invs[i].op <= op
                               /\ invs[i].op = op => invs[i].ran = 1 /\ This.kind = "put"
    BY <1>1, Members DEF OInv, Counted, CInv
  <2>4. \A i, j \in DOMAIN invs' :
          invs'[i].op = invs'[j].op /\ script[invs'[i].op].kind = "exec" => i = j
    <3> SUFFICES ASSUME NEW i \in DOMAIN invs', NEW j \in DOMAIN invs',
                        invs'[i].op = invs'[j].op, script[invs'[i].op].kind = "exec"
                 PROVE  i = j
      OBVIOUS
    <3>1. CASE i \in DOMAIN invs /\ j \in DOMAIN invs
      BY <2>1, <3>1 DEF OInv, Counted
    <3>2. CASE i = k /\ j \in DOMAIN invs
      BY <2>1, <2>2, <2>3, <3>2 DEF This
    <3>3. CASE j = k /\ i \in DOMAIN invs
      BY <2>1, <2>2, <2>3, <3>3 DEF This
    <3> QED BY <2>1, <3>1, <3>2, <3>3
  <2>5. CASE current' = k /\ pc' = "poll" /\ UNCHANGED <<op, outcome>>
    <3>1. \A i \in DOMAIN invs' : /\ Queued(i)' <=> invs'[i].ran = 0
                                  /\ invs'[i].op <= op'
      BY <1>2, <2>1, <2>2, <2>3, <2>5 DEF Queued
    <3>2. \A i \in DOMAIN invs' : invs'[i].op = op' =>
            i = current' \/ (invs'[i].ran = 1 /\ This'.kind = "put")
      BY <1>1, <2>1, <2>2, <2>3, <2>5 DEF This
    <3>3. invs'[current'].op = op' /\ invs'[current'].content = Content'
      BY <1>1, <2>1, <2>2, <2>5 DEF Content, This
    <3>4. \A n \in DOMAIN script' :
            /\ outcome'[n] # "none" => n < op'
            /\ outcome'[n] = "ok" => \A i \in DOMAIN invs' : invs'[i].op = n => invs'[i].ran = 1
      <4> SUFFICES ASSUME NEW n \in DOMAIN script, outcome[n] # "none"
                   PROVE  /\ n < op
                          /\ outcome[n] = "ok" => \A i \in DOMAIN invs' : invs'[i].op = n => invs'[i].ran = 1
        BY <1>1, <2>5
      <4>1. n < op /\ n # op
        BY <1>2 DEF OInv, Counted
      <4>2. outcome[n] = "ok" => \A i \in DOMAIN invs : invs[i].op = n => invs[i].ran = 1
        BY DEF OInv, Counted
      <4> QED BY <2>1, <2>2, <4>1, <4>2
    <3> QED BY <1>1, <2>1, <2>4, <2>5, <3>1, <3>2, <3>3, <3>4 DEF Counted
  <2>6. CASE End("failed") /\ UNCHANGED current
    <3>1. op' = op + 1 /\ pc' = "ready"
      BY <2>6 DEF End
    <3>2. \A n \in DOMAIN script : outcome'[n] = IF n = op THEN "failed" ELSE outcome[n]
      BY <1>1, <2>6 DEF End, CInv, Shapes
    <3>3. \A i \in DOMAIN invs' : /\ Queued(i)' <=> invs'[i].ran = 0
                                  /\ invs'[i].op <= op' /\ invs'[i].op < op'
      BY <1>2, <2>1, <2>2, <2>3, <3>1 DEF Queued
    <3>4. \A n \in DOMAIN script' :
            /\ outcome'[n] # "none" => n < op'
            /\ outcome'[n] = "ok" => \A i \in DOMAIN invs' : invs'[i].op = n => invs'[i].ran = 1
      <4> SUFFICES ASSUME NEW n \in DOMAIN script, n # op, outcome[n] # "none"
                   PROVE  /\ n < op
                          /\ outcome[n] = "ok" => \A i \in DOMAIN invs' : invs'[i].op = n => invs'[i].ran = 1
        BY <1>1, <1>2, <3>1, <3>2
      <4>1. n < op
        BY DEF OInv, Counted
      <4>2. outcome[n] = "ok" => \A i \in DOMAIN invs : invs[i].op = n => invs[i].ran = 1
        BY DEF OInv, Counted
      <4> QED BY <2>1, <2>2, <4>1, <4>2
    <3> QED BY <1>1, <2>4, <3>1, <3>3, <3>4 DEF Counted
  <2> QED BY <1>1, <2>5, <2>6, InvokeIs DEF k
<1> QED BY <1>1, <1>3, <1>4, InvokeIs

LEMMA EndedO == OInv /\ Ended => Counted'
<1> SUFFICES ASSUME OInv, Ended PROVE Counted'
  OBVIOUS
<1>1. /\ Shapes /\ pc = "poll" /\ op \in DOMAIN script /\ current \in DOMAIN invs
      /\ UNCHANGED <<script, invs>>
  BY DEF Ended, OInv, CInv, Shapes, Counted
<1>2. /\ This.kind # "put" => LastStep = 1
      /\ LastStep \in Nat /\ step \in Nat \ {0} /\ op \in Nat
  BY <1>1, ThisIs DEF Shapes
<1>3. invs[current].ran = 1
  <2>1. invs[current].ran \in {0, 1}
    BY <1>1, Members
  <2> QED BY <1>1, <2>1 DEF OInv, Counted, Queued, Ended
<1>4. \A i \in DOMAIN invs : invs[i].op = op => invs[i].ran = 1 /\ (i = current \/ This.kind = "put")
  BY <1>1, <1>3 DEF OInv, Counted
<1>5. CASE step < LastStep /\ step' = step + 1 /\ pc' = "ensure" /\ UNCHANGED <<op, outcome>>
  <2>1. This.kind = "put" /\ This' = This
    BY <1>1, <1>2, <1>5 DEF This
  <2> QED BY <1>1, <1>4, <1>5, <2>1 DEF OInv, Counted, Queued
<1>6. CASE End("failed")
  BY <1>1, <1>6, FailedO
<1>7. CASE End("ok")
  <2>1. op' = op + 1 /\ pc' = "ready" /\ DOMAIN script \subseteq Nat
    BY <1>1, <1>7, Members DEF End
  <2>2. \A n \in DOMAIN script : outcome'[n] = IF n = op THEN "ok" ELSE outcome[n]
    BY <1>1, <1>7 DEF End, Shapes
  <2>3. \A i \in DOMAIN invs : invs[i].op \in Nat /\ invs[i].op <= op
    BY <1>1, Members DEF OInv, Counted
  <2>4. \A i \in DOMAIN invs' : /\ Queued(i)' <=> invs'[i].ran = 0
                                /\ invs'[i].op <= op' /\ invs'[i].op < op'
    BY <1>1, <1>2, <2>1, <2>3 DEF OInv, Counted, Queued
  <2>5. \A n \in DOMAIN script' :
          /\ outcome'[n] # "none" => n < op'
          /\ outcome'[n] = "ok" => \A i \in DOMAIN invs' : invs'[i].op = n => invs'[i].ran = 1
    <3> SUFFICES ASSUME NEW n \in DOMAIN script, n = op \/ outcome[n] # "none"
                 PROVE  /\ n < op + 1
                        /\ n = op \/ outcome[n] = "ok" =>
                             \A i \in DOMAIN invs : invs[i].op = n => invs[i].ran = 1
      BY <1>1, <2>1, <2>2
    <3>1. n # op => n < op /\ (outcome[n] = "ok" => \A i \in DOMAIN invs : invs[i].op = n => invs[i].ran = 1)
      BY DEF OInv, Counted
    <3> QED BY <1>2, <1>4, <2>1, <3>1
  <2> QED BY <1>1, <2>1, <2>4, <2>5 DEF OInv, Counted
<1> QED BY <1>5, <1>6, <1>7 DEF Ended

LEMMA AgentO ==
  ASSUME OInv, NEW k \in DOMAIN invs, AgentRuns(k)
  PROVE  Counted'
<1>1. UNCHANGED <<script, op, pc, step, current, outcome>> /\ Shapes
  BY DEF AgentRuns, OInv, CInv
<1>2. /\ DOMAIN invs' = DOMAIN invs /\ \A j \in DOMAIN invs \ {k} : invs'[j] = invs[j]
      /\ invs'[k].status # "queued" /\ invs'[k].ran = 1
      /\ invs'[k].op = invs[k].op /\ invs'[k].content = invs[k].content
  BY <1>1, AgentIs
<1>3. \A i \in DOMAIN invs : /\ invs'[i].op = invs[i].op /\ invs'[i].content = invs[i].content
                             /\ invs[i].ran = 1 => invs'[i].ran = 1
                             /\ Queued(i)' <=> Queued(i) /\ i # k
                             /\ invs'[i].ran = 0 <=> invs[i].ran = 0 /\ i # k
  BY <1>2 DEF Queued
<1>4. This' = This /\ Content' = Content
  BY <1>1 DEF This, Content
<1>5. \A i \in DOMAIN invs' : /\ Queued(i)' <=> invs'[i].ran = 0
                              /\ invs'[i].op <= op' /\ (pc' = "ready" => invs'[i].op < op')
  BY <1>1, <1>2, <1>3 DEF OInv, Counted
<1>6. \A i \in DOMAIN invs' : pc' # "ready" /\ invs'[i].op = op' =>
        (pc' = "poll" /\ i = current') \/ (invs'[i].ran = 1 /\ This'.kind = "put")
  BY <1>1, <1>2, <1>3, <1>4 DEF OInv, Counted
<1>7. pc' = "poll" => current' \in DOMAIN invs' /\ invs'[current'].op = op' /\ invs'[current'].content = Content'
  BY <1>1, <1>2, <1>3, <1>4 DEF OInv, Counted
<1>8. \A i, j \in DOMAIN invs' :
        invs'[i].op = invs'[j].op /\ script'[invs'[i].op].kind = "exec" => i = j
  BY <1>1, <1>2, <1>3 DEF OInv, Counted
<1>9. \A n \in DOMAIN script' :
        /\ outcome'[n] # "none" => n < op'
        /\ outcome'[n] = "ok" => \A i \in DOMAIN invs' : invs'[i].op = n => invs'[i].ran = 1
  BY <1>1, <1>2, <1>3 DEF OInv, Counted
<1> QED BY <1>5, <1>6, <1>7, <1>8, <1>9 DEF Counted

LEMMA QuietC == UNCHANGED vars /\ CInv => CInv'
BY DEF vars, CInv, Shapes, Cached, Asked, Key, Content, This, LastStep

LEMMA OStep == OInv /\ [Next]_vars => OInv'
<1> SUFFICES ASSUME OInv, [Next]_vars PROVE OInv'
  OBVIOUS
<1>1. CInv'
  BY QuietC, BeginC, EnsureC, InvokeC, EndedC, GiveUpC, AgentC DEF OInv, Next
<1>2. Counted'
  <2>1. CASE UNCHANGED vars
    BY <2>1 DEF vars, OInv, Counted, Queued, Content, This
  <2>2. CASE GiveUp
    BY <2>2, FailedO DEF GiveUp
  <2> QED BY <2>1, <2>2, BeginO, EnsureO, InvokeO, EndedO, AgentO DEF Next
<1> QED BY <1>1, <1>2 DEF OInv

LEMMA OInvariance == Spec => []OInv
<1> QED BY InitOInv, OStep, PTL DEF Spec

\* Whatever replies are lost and whatever is given up: exec_command, which retries
\* nothing after _invoke, never has its command run twice, and returns an exit code
\* only when the command has run.
THEOREM RunsOnceAlways == Spec => []RunsOnce
<1>1. OInv => RunsOnce
  <2> SUFFICES ASSUME OInv, NEW n \in DOMAIN script
               PROVE  /\ script[n].kind = "exec" => Cardinality({i \in DOMAIN invs : invs[i].op = n}) <= 1
                      /\ outcome[n] = "ok" => \A i \in DOMAIN invs : invs[i].op = n => invs[i].ran = 1
    BY DEF RunsOnce
  <2> DEFINE mine == {i \in DOMAIN invs : invs[i].op = n}
  <2>1. outcome[n] = "ok" => \A i \in DOMAIN invs : invs[i].op = n => invs[i].ran = 1
    BY DEF OInv, Counted
  <2>2. ASSUME script[n].kind = "exec" PROVE Cardinality(mine) <= 1
    <3>1. \A i, j \in mine : i = j
      BY <2>2 DEF OInv, Counted
    <3>2. CASE mine = {}
      BY <3>2, FS_EmptySet
    <3>3. CASE mine # {}
      <4>1. PICK i \in mine : TRUE
        BY <3>3
      <4>2. mine = {i}
        BY <3>1, <4>1
      <4>3. Cardinality({i}) = 1
        BY FS_Singleton
      <4> QED BY <4>2, <4>3
    <3> QED BY <3>2, <3>3
  <2> QED BY <2>1, <2>2
<1> QED BY <1>1, OInvariance, PTL

-----------------------------------------------------------------------------
(* The chunks of a file.                                                   *)

LEMMA PrefixIs ==
  ASSUME NEW f \in Files, NEW n \in Nat
  PROVE  /\ Prefix(f, n) \in Contents /\ Len(Prefix(f, n)) = n
         /\ \A m \in 1 .. n : Prefix(f, n)[m] = <<f.name, m>>
         /\ n >= 1 => Prefix(f, n) # NoFile
<1>1. f.name \in Args
  BY DEF Args
<1>2. \A m \in 1 .. n : <<f.name, m>> \in Args \X Nat
  BY <1>1
<1>3. Prefix(f, n) \in Contents
  BY <1>2, IsASeq DEF Prefix, Contents
<1>4. DOMAIN Prefix(f, n) = 1 .. n /\ \A m \in 1 .. n : Prefix(f, n)[m] = <<f.name, m>>
  BY DEF Prefix
<1>5. Len(Prefix(f, n)) = n
  BY <1>3, <1>4, LenProperties DEF Contents
<1>6. ASSUME n >= 1 PROVE Prefix(f, n) # NoFile
  <2>1. Prefix(f, n)[1] = <<f.name, 1>>
    BY <1>4, <1>6
  <2>2. NoFile[1] = <<"no", 0>>
    BY DEF NoFile
  <2>3. <<f.name, 1>> # <<"no", 0>>
    OBVIOUS
  <2> QED BY <2>1, <2>2, <2>3
<1> QED BY <1>3, <1>4, <1>5, <1>6

LEMMA FirstChunk ==
  ASSUME NEW f \in Files
  PROVE  <<<<f.name, 1>>>> = Prefix(f, 1)
<1>1. /\ Prefix(f, 1) \in Seq(Args \X Nat) /\ Len(Prefix(f, 1)) = 1
      /\ Prefix(f, 1)[1] = <<f.name, 1>>
  <2>1. 1 \in Nat /\ 1 \in 1 .. 1
    OBVIOUS
  <2> QED BY <2>1, PrefixIs DEF Contents
<1>2. <<f.name, 1>> \in Args \X Nat
  BY DEF Args
<1> DEFINE s == <<<<f.name, 1>>>>
<1>3. s \in Seq(Args \X Nat) /\ Len(s) = 1 /\ s[1] = <<f.name, 1>>
  BY <1>2
<1> HIDE DEF s
<1>4. \A i \in 1 .. Len(s) : s[i] = Prefix(f, 1)[i]
  BY <1>1, <1>3
<1>5. s = Prefix(f, 1)
  BY <1>1, <1>3, <1>4, SeqEqual
<1> QED BY <1>5 DEF s

LEMMA NextChunk ==
  ASSUME NEW f \in Files, NEW n \in Nat, n >= 2
  PROVE  Append(Prefix(f, n - 1), <<f.name, n>>) = Prefix(f, n)
<1> DEFINE S == Args \X Nat
           p == Prefix(f, n - 1)
           q == Prefix(f, n)
           x == <<f.name, n>>
           a == Append(p, x)
<1>1. n - 1 \in Nat
  OBVIOUS
<1>2. p \in Seq(S) /\ Len(p) = n - 1 /\ \A m \in 1 .. n - 1 : p[m] = <<f.name, m>>
  BY <1>1, PrefixIs DEF Contents
<1>3. q \in Seq(S) /\ Len(q) = n /\ \A m \in 1 .. n : q[m] = <<f.name, m>>
  BY PrefixIs DEF Contents
<1>4. x \in S
  BY DEF Args
<1>5. x = <<f.name, n>>
  OBVIOUS
<1> HIDE DEF S, p, q, x
<1>6. /\ a \in Seq(S) /\ Len(a) = Len(p) + 1 /\ \A m \in 1 .. Len(p) : a[m] = p[m]
      /\ a[Len(p) + 1] = x
  BY <1>2, <1>4, AppendProperties
<1> HIDE DEF a
<1>7. ASSUME NEW m \in 1 .. n PROVE a[m] = q[m]
  <2>1. CASE m = n
    <3>1. a[n] = x
      BY <1>2, <1>6
    <3>2. q[n] = <<f.name, n>>
      BY <1>3
    <3> QED BY <1>5, <2>1, <3>1, <3>2
  <2>2. CASE m # n
    <3>1. m \in 1 .. n - 1
      BY <2>2
    <3> QED BY <1>2, <1>3, <1>6, <3>1
  <2> QED BY <2>1, <2>2
<1>8. Len(a) = n
  BY <1>2, <1>6
<1>9. a = q
  BY <1>3, <1>6, <1>7, <1>8, SeqEqual
<1> QED BY <1>9 DEF a, p, q, x

LEMMA WholeIs ==
  ASSUME NEW f \in Files
  PROVE  Whole(f) = Prefix(f, Pieces(f))
BY DEF Whole, Prefix

\* What the next command of a transfer makes of the chunks sent before it.
LEMMA NextPiece ==
  ASSUME Shapes, pc # "ready", This.kind = "put", This.file.chars > 0,
         step >= 2 => disk.staging = Prefix(This.file, step - 1)
  PROVE  LET d == Effect(Content)
         IN  IF step <= Pieces(This.file) THEN d.staging = Prefix(This.file, step)
             ELSE d.dest = Whole(This.file)
<1> DEFINE f == This.file
           P == Pieces(f)
           d == Effect(Content)
<1>1. f \in Files /\ LastStep = P + 1
  BY ThisIs DEF LastStep, Shapes
<1>2. P \in Nat /\ P >= 1 /\ step \in Nat \ {0} /\ step <= P + 1 /\ disk \in Disk
  BY <1>1, PiecesAre DEF Shapes
<1>3. Content = PutCommand(f, step)
  BY DEF Content
<1> HIDE DEF P
<1>4. CASE step = 1
  <2>1. Content.do = "write" /\ Content.arg = f.name /\ Content.n = 1
    BY <1>2, <1>3, <1>4 DEF PutCommand, P
  <2>2. d = [disk EXCEPT !.staging = <<<<f.name, 1>>>>]
    BY <2>1 DEF Effect
  <2>3. d.staging = Prefix(f, 1)
    BY <1>1, <1>2, <2>2, FirstChunk DEF Disk
  <2> QED BY <1>2, <1>4, <2>3 DEF P
<1>5. CASE step >= 2 /\ step <= P
  <2>1. Content.do = "append" /\ Content.arg = f.name /\ Content.n = step
    BY <1>2, <1>3, <1>5 DEF PutCommand, P
  <2>2. disk.staging = Prefix(f, step - 1)
    BY <1>5
  <2>3. disk.staging # NoFile
    <3>1. step - 1 \in Nat /\ step - 1 >= 1
      BY <1>2, <1>5
    <3> QED BY <1>1, <2>2, <3>1, PrefixIs
  <2>4. d = [disk EXCEPT !.staging = Append(disk.staging, <<f.name, step>>)]
    BY <2>1, <2>3 DEF Effect, Append2
  <2>5. Append(disk.staging, <<f.name, step>>) = Prefix(f, step)
    BY <1>1, <1>2, <1>5, <2>2, NextChunk
  <2>6. d.staging = Prefix(f, step)
    BY <1>2, <2>4, <2>5 DEF Disk
  <2> QED BY <1>5, <2>6 DEF P
<1>6. CASE step = P + 1
  <2>1. Content.do = "decode"
    BY <1>2, <1>3, <1>6 DEF PutCommand, P
  <2>2. d.dest = disk.staging
    BY <2>1 DEF Effect
  <2>3. disk.staging = Prefix(f, P)
    BY <1>2, <1>6
  <2>4. d.dest = Whole(f)
    BY <1>1, <2>2, <2>3, WholeIs DEF P
  <2>5. ~(step <= P)
    BY <1>2, <1>6
  <2> QED BY <2>4, <2>5 DEF P
<1> QED BY <1>2, <1>4, <1>5, <1>6

-----------------------------------------------------------------------------
(* What is delivered.                                                      *)

LEMMA InitDInv == Init => DInv
<1> SUFFICES ASSUME Init PROVE DInv
  OBVIOUS
<1>1. pc = "ready"
  BY DEF Init
<1> QED BY <1>1, InitOInv DEF DInv, Solo, Staged, Seen

LEMMA BeginD == DInv /\ Begin => (Solo /\ Staged /\ Seen)'
<1> SUFFICES ASSUME DInv, Begin PROVE (Solo /\ Staged /\ Seen)'
  OBVIOUS
<1>1. /\ op \in DOMAIN script /\ calm \in [DOMAIN script -> BOOLEAN] /\ pc' = "ensure" /\ step' = 1
      /\ UNCHANGED <<script, op, invs>>
  BY Members DEF DInv, OInv, CInv, Shapes, Begin
<1>2. calm'[op] = ~Abandoned
  BY <1>1 DEF Begin
<1>3. Solo'
  BY <1>1, <1>2 DEF Solo, Abandoned, Queued
<1>4. Staged' /\ Seen'
  BY <1>1 DEF Staged, Seen
<1> QED BY <1>3, <1>4

LEMMA EnsureD == DInv /\ Ensure => (Solo /\ Staged /\ Seen)'
<1> SUFFICES ASSUME DInv, Ensure PROVE (Solo /\ Staged /\ Seen)'
  OBVIOUS
<1>1. pc = "ensure" /\ UNCHANGED <<script, step, invs, disk, calm, seen>>
  BY DEF Ensure
<1>2. CASE pc' = "invoke" /\ UNCHANGED op
  BY <1>1, <1>2 DEF DInv, Solo, Staged, Seen, This, Queued
<1>3. CASE pc' = "ready"
  BY <1>3 DEF Solo, Staged, Seen
<1> QED BY <1>2, <1>3 DEF Ensure, End

LEMMA InvokeD == DInv /\ Invoke => (Solo /\ Staged /\ Seen)'
<1> SUFFICES ASSUME DInv, Invoke PROVE (Solo /\ Staged /\ Seen)'
  OBVIOUS
<1>1. /\ CInv /\ pc = "invoke" /\ op \in DOMAIN script
      /\ UNCHANGED <<script, step, disk, calm, seen>>
  BY InvokeIs DEF DInv, OInv, Invoke
<1>2. CASE pc' = "ready"
  BY <1>2 DEF Solo, Staged, Seen
<1>3. CASE invs' = Append(invs, Fresh) /\ current' = Len(invs) + 1 /\ pc' = "poll" /\ op' = op
  <2>1. /\ DOMAIN invs' = DOMAIN invs \cup {current'} /\ invs'[current'] = Fresh
        /\ \A i \in DOMAIN invs : invs'[i] = invs[i]
    <3>1. /\ DOMAIN invs = 1 .. Len(invs) /\ DOMAIN invs' = 1 .. Len(invs) + 1 /\ Len(invs) \in Nat
          /\ invs'[Len(invs) + 1] = Fresh /\ \A i \in DOMAIN invs : invs'[i] = invs[i]
      BY <1>1, <1>3, AppendedIs
    <3> QED BY <1>3, <3>1
  <2>2. Queued(current)'
    BY <2>1 DEF Queued, Fresh
  <2>3. Solo'
    BY <1>1, <1>3, <2>1 DEF DInv, Solo, Queued
  <2>4. Staged'
    BY <1>1, <1>3, <2>2 DEF DInv, Staged, This
  <2>5. Seen'
    BY <2>2 DEF Seen
  <2> QED BY <2>3, <2>4, <2>5
<1> QED BY <1>1, <1>2, <1>3, InvokeIs DEF End

LEMMA EndedD == DInv /\ Ended => (Solo /\ Staged /\ Seen)'
<1> SUFFICES ASSUME DInv, Ended PROVE (Solo /\ Staged /\ Seen)'
  OBVIOUS
<1>1. /\ Shapes /\ pc = "poll" /\ ~Queued(current) /\ UNCHANGED <<script, invs, disk, calm, seen>>
  BY DEF DInv, OInv, CInv, Ended, Queued
<1>2. CASE pc' = "ready"
  BY <1>2 DEF Solo, Staged, Seen
<1>3. CASE Passed(current) /\ step < LastStep /\ step' = step + 1 /\ pc' = "ensure" /\ UNCHANGED op
  <2>1. Solo'
    BY <1>1, <1>3 DEF DInv, Solo, Queued
  <2>2. Seen'
    BY <1>3 DEF Seen
  <2>3. Staged'
    <3> SUFFICES ASSUME Truthful, calm[op], This.kind = "put", This.file.chars > 0
                 PROVE  disk.staging = Prefix(This.file, step' - 1)
      BY <1>1, <1>3 DEF Staged, This
    <3>1. step \in Nat /\ Pieces(This.file) \in Nat /\ LastStep = Pieces(This.file) + 1
      BY <1>1, ThisIs, PiecesAre DEF LastStep, Shapes
    <3>2. step <= Pieces(This.file) /\ step' - 1 = step
      BY <1>3, <3>1
    <3> QED BY <1>1, <1>3, <3>2 DEF DInv, Staged, Passed
  <2> QED BY <2>1, <2>2, <2>3
<1> QED BY <1>2, <1>3 DEF Ended, End

LEMMA AgentD ==
  ASSUME DInv, NEW i \in DOMAIN invs, AgentRuns(i)
  PROVE  (Solo /\ Staged /\ Seen)'
<1>1. /\ UNCHANGED <<script, op, pc, step, current, calm>> /\ seen' = seen \cup {disk'.dest}
      /\ Shapes /\ Counted
  BY DEF AgentRuns, DInv, OInv, CInv
<1>2. /\ DOMAIN invs' = DOMAIN invs /\ disk' \in Disk
      /\ \A j \in DOMAIN invs \ {i} : invs'[j] = invs[j]
      /\ Queued(i) /\ ~Queued(i)'
      /\ \/ /\ CanDo(invs[i].content) /\ disk' = Effect(invs[i].content)
            /\ invs'[i].code = 0 /\ invs'[i].output = Output
         \/ invs'[i].code \in FailedCodes
  BY <1>1, AgentIs DEF Queued
<1>3. This' = This
  BY <1>1 DEF This
<1>4. Solo'
  BY <1>1, <1>2 DEF DInv, Solo, Queued
<1>5. Staged'
  <2> SUFFICES ASSUME Truthful, pc # "ready", calm[op], This.kind = "put", This.file.chars > 0
               PROVE  /\ step >= 2 /\ (pc = "poll" => Queued(current)') => disk'.staging = Prefix(This.file, step - 1)
                      /\ pc = "poll" /\ ~Queued(current)' /\ invs'[current].code = 0 =>
                           IF step <= Pieces(This.file) THEN disk'.staging = Prefix(This.file, step)
                           ELSE disk'.dest = Whole(This.file)
    BY <1>1, <1>3 DEF Staged
  <2>1. pc = "poll" /\ i = current
    BY <1>2 DEF DInv, Solo
  <2>2. invs[i].content = Content
    BY <1>1, <2>1 DEF Counted
  <2>3. step >= 2 => disk.staging = Prefix(This.file, step - 1)
    BY <1>2, <2>1 DEF DInv, Staged
  <2>4. LET d == Effect(Content)
        IN  IF step <= Pieces(This.file) THEN d.staging = Prefix(This.file, step)
            ELSE d.dest = Whole(This.file)
    BY <1>1, <2>3, NextPiece
  <2>5. invs'[current].code = 0 => disk' = Effect(Content)
    BY <1>2, <2>1, <2>2 DEF Truthful
  <2>6. ~Queued(current)'
    BY <1>1, <1>2, <2>1 DEF Queued
  <2> QED BY <2>1, <2>4, <2>5, <2>6
<1>6. Seen'
  <2> SUFFICES ASSUME Truthful, pc = "poll", This.kind = "fetch", ~Queued(current)', invs'[current].code = 0
               PROVE  \E s \in seen' : s \in Contents /\ invs'[current].output = Cut(s)
    BY <1>1, <1>3 DEF Seen
  <2>1. current \in DOMAIN invs /\ invs[current].content = Content
    BY <1>1 DEF Counted
  <2>2. CASE i = current
    <3>1. disk' = Effect(Content) /\ invs'[current].output = Output
      BY <1>2, <2>1, <2>2 DEF Truthful
    <3>2. Effect(Content) = disk
      BY DEF Effect, Content
    <3>3. Output \in Contents /\ Output = Cut(disk.dest) /\ disk.dest \in Contents
      BY <1>1, OutputIs DEF Shapes, Disk
    <3> QED BY <1>1, <3>1, <3>2, <3>3
  <2>3. CASE i # current
    <3>1. invs'[current] = invs[current]
      BY <1>2, <2>1, <2>3
    <3>2. \E s \in seen : s \in Contents /\ invs[current].output = Cut(s)
      <4>1. ~Queued(current) /\ invs[current].code = 0
        BY <1>1, <3>1 DEF Queued
      <4> QED BY <4>1 DEF DInv, Seen
    <3> QED BY <1>1, <3>1, <3>2
  <2> QED BY <2>2, <2>3
<1> QED BY <1>4, <1>5, <1>6

LEMMA DStep == DInv /\ [Next]_vars => DInv'
<1> SUFFICES ASSUME DInv, [Next]_vars PROVE DInv'
  OBVIOUS
<1>1. OInv'
  BY OStep DEF DInv
<1>2. (Solo /\ Staged /\ Seen)'
  <2>1. CASE UNCHANGED vars
    BY <2>1 DEF vars, DInv, Solo, Staged, Seen, Queued, This
  <2>2. CASE GiveUp
    BY <2>2 DEF GiveUp, End, Solo, Staged, Seen
  <2> QED BY <2>1, <2>2, BeginD, EnsureD, InvokeD, EndedD, AgentD DEF Next
<1> QED BY <1>1, <1>2 DEF DInv

\* What the API cuts off of an output is its end.
LEMMA CutIs ==
  ASSUME NEW s \in Contents
  PROVE  Cut(s) = s \/ (Len(s) > OutputMax /\ IsPrefix(Cut(s), s))
<1>1. s \in Seq(Args \X Nat) /\ Len(s) \in Nat /\ OutputMax \in Nat /\ OutputMax >= 1
  BY LenProperties, TatAssumption DEF Contents
<1> SUFFICES ASSUME ~(Len(s) <= OutputMax) PROVE Len(s) > OutputMax /\ IsPrefix(Cut(s), s)
  BY DEF Cut
<1>2. Cut(s) = SubSeq(s, 1, OutputMax) /\ Len(s) > OutputMax
  BY <1>1 DEF Cut
<1>3. \A m \in 1 .. OutputMax : s[m] \in Args \X Nat
  BY <1>1, ElementOfSeq
<1>4. Cut(s) \in Seq(Args \X Nat) /\ Len(Cut(s)) = OutputMax
  BY <1>1, <1>2, <1>3, SubSeqProperties
<1>5. SubSeq(Cut(s), 1, Len(Cut(s))) = Cut(s)
  BY <1>4, SubSeqFull
<1> QED BY <1>1, <1>2, <1>4, <1>5 DEF IsPrefix

\* As long as only an invocation that ended with SUCCESS reports exit code 0: when put_file
\* returns, the file is whole, whatever earlier transfers left behind, and fetch_file
\* returns what the file held while it ran, or as much of it as TAT's output holds.
THEOREM DeliveredAlways == Truthful /\ Spec => Delivered
<1>1. ASSUME Truthful, DInv, Next, pc = "poll", outcome'[op] = "ok"
      PROVE  /\ This.kind = "put" /\ calm[op] /\ This.file.chars > 0 => disk.dest = Whole(This.file)
             /\ This.kind = "fetch" =>
                  \E s \in seen : fetched' = s \/ (Len(s) > OutputMax /\ IsPrefix(fetched', s))
  <2>1. Shapes /\ Counted /\ op \in DOMAIN script /\ op \in Nat
    BY <1>1 DEF DInv, OInv, CInv, Shapes
  <2>2. outcome[op] # "ok"
    BY <2>1 DEF Counted
  <2>3. Ended /\ End("ok") /\ Passed(current) /\ ~(step < LastStep)
    <3>1. ~UNCHANGED outcome
      BY <1>1, <2>2
    <3>2. ~End("failed")
      BY <1>1, <2>1 DEF End, Shapes
    <3>3. Ended
      BY <1>1, <3>1, <3>2 DEF Next, Begin, Ensure, Invoke, GiveUp, AgentRuns
    <3> QED BY <3>1, <3>2, <3>3 DEF Ended
  <2>4. ~Queued(current) /\ invs[current].code = 0
    BY <2>3 DEF Ended, Passed, Queued
  <2>5. ASSUME This.kind = "put", calm[op], This.file.chars > 0
        PROVE  disk.dest = Whole(This.file)
    <3>1. LastStep = Pieces(This.file) + 1 /\ Pieces(This.file) \in Nat /\ step \in Nat
      BY <2>1, <2>5, ThisIs, PiecesAre DEF LastStep, Shapes
    <3>2. ~(step <= Pieces(This.file))
      BY <2>3, <3>1
    <3> QED BY <1>1, <2>4, <2>5, <3>2 DEF DInv, Staged
  <2>6. ASSUME This.kind = "fetch"
        PROVE  \E s \in seen : fetched' = s \/ (Len(s) > OutputMax /\ IsPrefix(fetched', s))
    <3>1. fetched' = invs[current].output
      BY <2>3, <2>6 DEF Ended
    <3>2. PICK s \in seen : s \in Contents /\ invs[current].output = Cut(s)
      BY <1>1, <2>4, <2>6 DEF DInv, Seen
    <3> QED BY <3>1, <3>2, CutIs
  <2> QED BY <2>5, <2>6
<1>2. Truthful /\ DInv /\ [Next]_vars =>
        [pc = "poll" /\ outcome'[op] = "ok" =>
          /\ This.kind = "put" /\ calm[op] /\ This.file.chars > 0 => disk.dest = Whole(This.file)
          /\ This.kind = "fetch" =>
               \E s \in seen : fetched' = s \/ (Len(s) > OutputMax /\ IsPrefix(fetched', s))]_vars
  BY <1>1
<1>3. Truthful /\ Init => Truthful /\ DInv
  BY InitDInv
<1>4. (Truthful /\ DInv) /\ [Next]_vars => (Truthful /\ DInv)'
  BY DStep DEF Truthful
<1> QED BY <1>2, <1>3, <1>4, PTL DEF Spec, Delivered

-----------------------------------------------------------------------------
(* What is never torn.                                                     *)

LEMMA InitNInv == Init => NInv
<1> SUFFICES ASSUME Init PROVE NInv
  OBVIOUS
<1>1. DOMAIN invs = {} /\ \A n \in DOMAIN script : calm[n]
  BY DEF Init
<1>2. disk.dest = NoFile
  BY DEF Init
<1> QED BY <1>1, <1>2, InitDInv DEF NInv, Untorn

LEMMA HeldStep == NInv /\ [Next]_vars =>
                    /\ (\A n \in DOMAIN script : n > op \/ (n = op /\ pc = "ready") => calm[n])'
                    /\ Calm' => Calm
<1> SUFFICES ASSUME NInv, [Next]_vars
             PROVE  /\ (\A n \in DOMAIN script : n > op \/ (n = op /\ pc = "ready") => calm[n])'
                    /\ Calm' => Calm
  OBVIOUS
<1>1. /\ op \in Nat /\ DOMAIN script \subseteq Nat /\ calm \in [DOMAIN script -> BOOLEAN] /\ Shapes
      /\ \A n \in DOMAIN script : n > op \/ (n = op /\ pc = "ready") => calm[n]
  BY Members DEF NInv, DInv, OInv, CInv, Shapes
<1>2. CASE Begin
  <2>1. /\ \A n \in DOMAIN script \ {op} : calm'[n] = calm[n]
        /\ script' = script /\ op' = op /\ pc' = "ensure" /\ pc = "ready"
    BY <1>1, <1>2 DEF Begin
  <2> QED BY <1>1, <2>1 DEF Calm
<1>3. CASE UNCHANGED <<script, calm>> /\ pc # "ready" /\ pc' # "ready" /\ op' = op
  BY <1>1, <1>3 DEF Calm
<1>4. CASE UNCHANGED <<script, calm>> /\ op' = op + 1
  BY <1>1, <1>4 DEF Calm
<1>5. CASE UNCHANGED <<script, calm, op, pc>>
  BY <1>1, <1>5 DEF Calm
<1>6. Begin \/ Ensure \/ Invoke \/ Ended \/ GiveUp \/ (\E i \in DOMAIN invs : AgentRuns(i)) \/ UNCHANGED vars
  BY DEF Next
<1>7. CASE Ensure
  BY <1>3, <1>4, <1>7 DEF Ensure, End
<1>8. CASE Invoke
  BY <1>3, <1>4, <1>8 DEF Invoke, End
<1>9. CASE Ended
  BY <1>3, <1>4, <1>9 DEF Ended, End
<1>10. CASE GiveUp
  BY <1>4, <1>10 DEF GiveUp, End
<1>11. CASE \E i \in DOMAIN invs : AgentRuns(i)
  BY <1>5, <1>11 DEF AgentRuns
<1>12. CASE UNCHANGED vars
  BY <1>5, <1>12 DEF vars
<1> QED BY <1>2, <1>6, <1>7, <1>8, <1>9, <1>10, <1>11, <1>12

LEMMA UntornInvoke ==
  ASSUME NInv, Invoke, Truthful, Calm, Untorn
  PROVE  Untorn'
<1>1. /\ CInv /\ Shapes /\ pc = "invoke" /\ op \in DOMAIN script /\ UNCHANGED disk
  BY InvokeIs DEF NInv, DInv, OInv, CInv, Invoke
<1>2. CASE invs' = invs
  BY <1>1, <1>2 DEF Untorn, Queued
<1>3. CASE invs' = Append(invs, Fresh)
  <2> DEFINE k == Len(invs) + 1
  <2>1. /\ DOMAIN invs = 1 .. Len(invs) /\ DOMAIN invs' = 1 .. Len(invs) + 1 /\ Len(invs) \in Nat
        /\ invs'[k] = Fresh /\ \A i \in DOMAIN invs : invs'[i] = invs[i]
    BY <1>1, <1>3, AppendedIs
  <2>2. DOMAIN invs' = DOMAIN invs \cup {k}
    BY <2>1
  <2>3. \A i \in DOMAIN invs : ~Queued(i)
    BY <1>1 DEF NInv, DInv, Solo, Calm
  <2> HIDE DEF k
  <2>4. \A i \in DOMAIN invs' : Queued(i)' => i = k
    BY <2>1, <2>2, <2>3 DEF Queued
  <2>5. ASSUME Content.do = "decode" PROVE disk.staging \in Wholes
    <3>1. This.kind = "put" /\ step > Pieces(This.file) /\ This.file \in Files /\ LastStep = Pieces(This.file) + 1
      BY <1>1, <2>5, ThisIs DEF LastStep
    <3>2. This.file.chars > 0
      BY <1>1, <3>1 DEF Calm, This
    <3>3. Pieces(This.file) \in Nat /\ Pieces(This.file) >= 1 /\ step \in Nat /\ step <= LastStep
      BY <1>1, <3>1, <3>2, PiecesAre DEF Shapes
    <3>4. step - 1 = Pieces(This.file) /\ step >= 2
      BY <3>1, <3>3
    <3>5. calm[op]
      BY <1>1 DEF Calm
    <3>6. disk.staging = Prefix(This.file, step - 1)
      BY <1>1, <3>1, <3>2, <3>4, <3>5 DEF NInv, DInv, Staged
    <3> QED BY <3>1, <3>4, <3>6, WholeIs DEF Wholes
  <2>6. \A i \in DOMAIN invs' : Queued(i)' /\ invs'[i].content.do = "decode" => disk'.staging \in Wholes
    BY <1>1, <2>1, <2>4, <2>5 DEF Fresh
  <2> QED BY <1>1, <2>4, <2>6 DEF Untorn
<1> QED BY <1>2, <1>3, InvokeIs, <1>1

LEMMA UntornAgent ==
  ASSUME NInv, NEW i \in DOMAIN invs, AgentRuns(i), Untorn
  PROVE  Untorn'
<1>1. Shapes
  BY DEF NInv, DInv, OInv, CInv
<1> DEFINE c == invs[i].content
<1>2. /\ DOMAIN invs' = DOMAIN invs /\ \A j \in DOMAIN invs \ {i} : invs'[j] = invs[j]
      /\ Queued(i) /\ ~Queued(i)'
      /\ disk' \in {Effect(c)} \cup Remains(c)
  <2>1. disk \in Remains(c)
    BY DEF Remains
  <2> QED BY <1>1, <2>1, AgentIs DEF Queued
<1>3. \A j \in DOMAIN invs' : ~Queued(j)'
  BY <1>2 DEF Untorn, Queued
<1>4. disk \in Disk /\ disk.dest \in {NoFile} \cup Wholes
  BY <1>1 DEF Shapes, Untorn
<1>5. CASE c.do = "decode"
  <2>1. disk.staging \in Wholes
    BY <1>2, <1>5 DEF Untorn
  <2>2. \A d \in {Effect(c)} \cup Remains(c) : d.dest = disk.dest \/ d.dest = disk.staging
    BY <1>4, <1>5 DEF Effect, Remains, Disk
  <2> QED BY <1>2, <1>3, <1>4, <2>1, <2>2 DEF Untorn
<1>6. CASE c.do # "decode"
  <2>1. \A d \in {Effect(c)} \cup Remains(c) : d.dest = disk.dest
    BY <1>4, <1>6 DEF Effect, Remains, Disk
  <2> QED BY <1>2, <1>3, <1>4, <2>1 DEF Untorn
<1> QED BY <1>5, <1>6

LEMMA NStep == NInv /\ [Next]_vars => NInv'
<1> SUFFICES ASSUME NInv, [Next]_vars PROVE NInv'
  OBVIOUS
<1>1. DInv'
  BY DStep DEF NInv
<1>2. /\ (\A n \in DOMAIN script : n > op \/ (n = op /\ pc = "ready") => calm[n])'
      /\ Calm' => Calm
  BY HeldStep
<1>3. ASSUME Truthful, Calm' PROVE Untorn'
  <2>1. Calm /\ Untorn
    BY <1>2, <1>3 DEF NInv
  <2>2. CASE UNCHANGED <<invs, disk>>
    BY <2>1, <2>2 DEF Untorn, Queued
  <2>3. CASE Invoke
    BY <1>3, <2>1, <2>3, UntornInvoke
  <2>4. CASE \E i \in DOMAIN invs : AgentRuns(i)
    BY <2>1, <2>4, UntornAgent
  <2> QED BY <2>2, <2>3, <2>4 DEF Next, Begin, Ensure, Ended, GiveUp, vars
<1> QED BY <1>1, <1>2, <1>3 DEF NInv, Truthful

\* Under the same assumption: however put_file fails, the file is the old one or all of a
\* new one, if no operation began while a command that was given up could still run.
THEOREM NeverTornAlways == Truthful /\ Spec => []NeverTorn
<1>1. Truthful /\ NInv => NeverTorn
  BY DEF NInv, NeverTorn, Calm, Untorn, Wholes
<1>2. Truthful /\ Init => Truthful /\ NInv
  BY InitNInv
<1>3. (Truthful /\ NInv) /\ [Next]_vars => (Truthful /\ NInv)'
  BY NStep DEF Truthful
<1> QED BY <1>1, <1>2, <1>3, PTL DEF Spec



-----------------------------------------------------------------------------
(***************************************************************************)
(* cvm_instance, a task for a single instance: the shapes of what it knows *)
(* and of the rows of the account.                                         *)
(***************************************************************************)
Columns == {"state", "name", "pool", "prepaid", "batch", "conf", "asked", "killer"}
Known   == {"pc", "tries", "offset", "seen", "batches", "doomed", "todo", "goal", "target",
            "snap", "writes", "result", "lost", "clean"}
Verbs   == {"running", "stopped", "rebooted"}

\* The runs under consideration find an account where no reboot is under way unseen.
NobodyAsked == \A s \in Scenarios, i \in Ids : ~s.account[i].asked

\* f is a function on S.
On(f, S) == f = [x \in S |-> f[x]]

\* A row of the account; nothing is asked of an instance that does not show it.
Row(r) == On(r, Columns) /\ On(r.conf, Fields) /\ ~r.asked

Forms ==
  /\ params \in [Tasks -> Param]
  /\ On(inst, Ids) /\ On(task, Tasks)
  /\ \A i \in Ids : Row(inst[i])
  /\ EagerReboot

\* No task began before the tasks it comes after had ended.
InTurn ==
  \A t, u \in Tasks : u \in params[t].after /\ task[t].pc # "start" => task[u].pc = "done"

Goal(g) == CASE g = "absent"  -> "GONE"
             [] g = "present" -> "RUNNING"
             [] OTHER         -> Verb(g).goal

\* What a task of kind g knows at each place.
Placed(k) ==
  /\ k.pc \in {"start", "find", "create", "power", "delete", "write", "await", "refind", "done"}
  /\ k.pc # "done" => k.result = "none"
  /\ k.pc \in {"start", "find", "create"} => k.target = None
  /\ k.pc \in {"power", "delete", "write", "await", "refind"} => k.target \in Ids

Apt(k, g) ==
  /\ k.pc \in {"create", "write"} => g = "present"
  /\ k.pc = "power" => g \in Verbs
  /\ k.pc = "delete" => g = "absent"
  /\ k.pc = "refind" => g # "absent"

Armed(k, g) ==
  /\ k.pc = "write" => k.writes \in Seq(Fields) /\ k.writes # <<>>
  /\ k.pc = "await" => k.todo = <<k.target>> /\ k.goal = Goal(g)

Fits(k, g) == On(k, Known) /\ Placed(k) /\ Apt(k, g) /\ Armed(k, g)

\* What the task asked for p is to change is in place in the row r, or still on
\* its list; and where r is to be for the report it is, and stays.
Kept(k, p, r) ==
  p.kind = "present" /\ k.pc \in {"write", "await", "refind"} =>
    \A f \in Fields : \/ p.want[f] \in {None, r.conf[f]}
                      \/ k.pc = "write" /\ f \in ToSet(k.writes)

Settled(k, p, r) ==
  /\ k.pc = "write" /\ k.snap = "STOPPED" => r.state = "STOPPED"
  /\ k.pc = "refind" => \/ r.state = Goal(p.kind)
                        \/ r.state = "STOPPED" /\ k.snap = "STOPPED" /\ p.kind = "present"

InPlace(t) ==
  LET k == task[t]
  IN  Kept(k, params[t], inst[k.target]) /\ Settled(k, params[t], inst[k.target])

\* A task for a pool goes its own way.
PoolPlaces  == {"start", "count", "recount", "run", "terminate", "await", "done"}
ForPool(k)  == On(k, Known) /\ k.pc \in PoolPlaces

Careful(t) ==
  IF params[t].kind = "pool" THEN ForPool(task[t])
  ELSE Fits(task[t], params[t].kind) /\ (Alone(t) => InPlace(t))

SInv == Forms /\ InTurn /\ \A t \in Tasks : Careful(t)

LEMMA RowIs ==
  ASSUME NEW r \in Inst, ~r.asked
  PROVE  Row(r)
BY DEF Row, On, Inst, Columns

LEMMA SInvInit == EagerReboot /\ NobodyAsked /\ CvmInit => SInv
<1> SUFFICES ASSUME EagerReboot, NobodyAsked, CvmInit PROVE SInv
  OBVIOUS
<1>1. PICK s \in Scenarios : params = s.asks /\ inst = s.account
  BY DEF CvmInit
<1>2. s \in [asks : [Tasks -> Param], account : [Ids -> Inst]]
  BY CvmAssumption
<1>3. params \in [Tasks -> Param] /\ inst \in [Ids -> Inst]
  BY <1>1, <1>2
<1>4. task = [t \in Tasks |-> Begun]
  BY DEF CvmInit
<1>5. \A i \in Ids : Row(inst[i])
  BY <1>1, <1>3, RowIs DEF NobodyAsked
<1>6. Forms
  BY <1>3, <1>4, <1>5 DEF Forms, On
<1>7. InTurn
  BY <1>4 DEF InTurn, Begun
<1>8. ASSUME NEW t \in Tasks PROVE Careful(t)
  <2>1. task[t] = Begun
    BY <1>4
  <2>2. On(Begun, Known) /\ Begun.pc = "start" /\ Begun.result = "none" /\ Begun.target = None
    BY DEF On, Begun, Known
  <2>3. task[t].pc = "start" /\ task[t].result = "none" /\ task[t].target = None
    BY <2>1, <2>2
  <2>4. On(task[t], Known)
    BY <2>1, <2>2
  <2>5. Fits(task[t], params[t].kind)
    BY <2>3, <2>4 DEF Fits, Placed, Apt, Armed
  <2>6. InPlace(t)
    BY <2>3 DEF InPlace, Kept, Settled
  <2>7. ForPool(task[t])
    BY <2>3, <2>4 DEF ForPool, PoolPlaces
  <2> QED BY <2>5, <2>6, <2>7 DEF Careful
<1> QED BY <1>6, <1>7, <1>8 DEF SInv

-----------------------------------------------------------------------------
(***************************************************************************)
(* The records a step of the task leaves.                                  *)
(***************************************************************************)
LEMMA OnEnded ==
  ASSUME NEW t \in Tasks, On(task[t], Known), NEW r
  PROVE  /\ On(EndedAs(t, r), Known) /\ EndedAs(t, r).pc = "done"
         /\ EndedAs(t, r).result = r
BY DEF On, Known, EndedAs

\* k and l differ in nothing that Fits, Kept or Settled look at.
Alike(k, l) ==
  /\ k.pc = l.pc /\ k.result = l.result /\ k.target = l.target /\ k.goal = l.goal
  /\ k.todo = l.todo /\ k.writes = l.writes /\ k.snap = l.snap

LEMMA OnRaise ==
  ASSUME NEW t \in Tasks, On(task[t], Known), NEW f
  PROVE  /\ On(Raise(t, f), Known)
         /\ \/ Raise(t, f).pc = "done" /\ Raise(t, f).result = "failed"
            \/ Alike(Raise(t, f), task[t])
<1> DEFINE k == [task[t] EXCEPT !.tries = @ + 1, !.lost = @ \/ f.done]
           e == EndedAs(t, "failed")
<1>1. On(k, Known) /\ Alike(k, task[t])
  BY DEF On, Known, Alike
<1>2. On(e, Known) /\ e.pc = "done" /\ e.result = "failed"
  BY OnEnded
<1>3. /\ On([e EXCEPT !.lost = @ \/ f.done], Known)
      /\ [e EXCEPT !.lost = @ \/ f.done].pc = "done"
      /\ [e EXCEPT !.lost = @ \/ f.done].result = "failed"
  <2> HIDE DEF e
  <2> QED BY <1>2 DEF On, Known
<1> HIDE DEF k
<1> QED BY <1>1, <1>3 DEF Raise, k, e

\* A call is accepted and the task goes on as k; or it ends the task; or the task
\* is where it was, and the call may have done its work.
LEMMA CallIs ==
  ASSUME NEW t \in Tasks, On(task, Tasks), On(task[t], Known),
         NEW accepted \in BOOLEAN, NEW effect, NEW k, Call(t, accepted, effect, k)
  PROVE  /\ inst' \in {inst, effect}
         /\ \/ accepted /\ inst' = effect /\ task'[t] = k
            \/ On(task'[t], Known) /\ task'[t].pc = "done" /\ task'[t].result = "failed"
            \/ On(task'[t], Known) /\ Alike(task'[t], task[t])
         /\ (accepted \/ inst' = inst)
         /\ On(task', Tasks) /\ \A u \in Tasks \ {t} : task'[u] = task[u]
         /\ params' = params
<1>1. ASSUME NEW l, Set(t, l)
      PROVE  /\ task'[t] = l /\ On(task', Tasks)
             /\ \A u \in Tasks \ {t} : task'[u] = task[u]
  BY <1>1 DEF Set, On
<1>2. CASE accepted /\ inst' = effect /\ Set(t, k)
  BY <1>1, <1>2 DEF Call
<1>3. CASE ~accepted /\ inst' = inst /\ Set(t, EndedAs(t, "failed"))
  BY <1>1, <1>3, OnEnded DEF Call
<1>4. ASSUME NEW f \in Faults, inst' = IF accepted /\ f.done THEN effect ELSE inst,
             Set(t, Raise(t, f))
      PROVE  /\ inst' \in {inst, effect}
             /\ \/ On(task'[t], Known) /\ task'[t].pc = "done" /\ task'[t].result = "failed"
                \/ On(task'[t], Known) /\ Alike(task'[t], task[t])
             /\ (accepted \/ inst' = inst)
             /\ On(task', Tasks) /\ \A u \in Tasks \ {t} : task'[u] = task[u]
  <2>1. inst' \in {inst, effect} /\ (accepted \/ inst' = inst)
    BY <1>4
  <2>2. /\ task'[t] = Raise(t, f) /\ On(task', Tasks)
        /\ \A u \in Tasks \ {t} : task'[u] = task[u]
    BY <1>1, <1>4
  <2>3. /\ On(Raise(t, f), Known)
        /\ \/ Raise(t, f).pc = "done" /\ Raise(t, f).result = "failed"
           \/ Alike(Raise(t, f), task[t])
    BY OnRaise
  <2> QED BY <2>1, <2>2, <2>3
<1>5. params' = params
  BY DEF Call
<1> QED BY <1>2, <1>3, <1>4, <1>5 DEF Call

-----------------------------------------------------------------------------
(***************************************************************************)
(* Each step of a task for a single instance keeps what Careful says of it. *)
(***************************************************************************)
Good(k, p, r) == Kept(k, p, r) /\ Settled(k, p, r)

Stays(t) ==
  /\ Fits(task'[t], params[t].kind)
  /\ InPlace(t) => Good(task'[t], params[t], inst'[task'[t].target])

LEMMA AlikeFits ==
  ASSUME NEW k, NEW l, NEW g, Alike(l, k), Fits(k, g), On(l, Known)
  PROVE  Fits(l, g)
<1>1. Placed(l)
  BY DEF Alike, Fits, Placed
<1>2. Apt(l, g)
  BY DEF Alike, Fits, Apt
<1>3. Armed(l, g)
  BY DEF Alike, Fits, Armed
<1> QED BY <1>1, <1>2, <1>3 DEF Fits

LEMMA AlikeGood ==
  ASSUME NEW k, NEW l, NEW p, NEW r, Alike(l, k), Good(k, p, r)
  PROVE  Good(l, p, r)
<1>1. Kept(l, p, r)
  BY DEF Alike, Good, Kept
<1>2. Settled(l, p, r)
  BY DEF Alike, Good, Settled
<1> QED BY <1>1, <1>2 DEF Good

\* A task that ended, and one that has no instance yet, has nothing to keep.
LEMMA Ends ==
  ASSUME NEW k, On(k, Known), k.pc = "done", NEW g, NEW p, NEW r
  PROVE  Fits(k, g) /\ Good(k, p, r)
<1>1. Placed(k) /\ Apt(k, g)
  BY DEF Placed, Apt
<1>2. Armed(k, g)
  BY DEF Armed
<1> QED BY <1>1, <1>2 DEF Fits, Good, Kept, Settled

LEMMA CallStays ==
  ASSUME NEW t \in Tasks, On(task, Tasks), Fits(task[t], params[t].kind),
         NEW accepted \in BOOLEAN, NEW effect, NEW k, Call(t, accepted, effect, k),
         accepted => Fits(k, params[t].kind),
         accepted /\ InPlace(t) => Good(k, params[t], effect[k.target]),
         accepted /\ InPlace(t) => Good(task[t], params[t], effect[task[t].target])
  PROVE  Stays(t)
<1> DEFINE p == params[t]
           l == task'[t]
<1>0. On(task[t], Known) /\ (InPlace(t) => Good(task[t], p, inst[task[t].target]))
  BY DEF Fits, InPlace, Good
<1>1. /\ inst' \in {inst, effect}
      /\ \/ accepted /\ inst' = effect /\ l = k
         \/ On(l, Known) /\ l.pc = "done" /\ l.result = "failed"
         \/ On(l, Known) /\ Alike(l, task[t])
      /\ (accepted \/ inst' = inst)
  BY <1>0, CallIs
<1>2. CASE accepted /\ inst' = effect /\ l = k
  BY <1>2 DEF Stays
<1>3. CASE On(l, Known) /\ l.pc = "done"
  BY <1>3, Ends DEF Stays
<1>4. CASE On(l, Known) /\ Alike(l, task[t])
  <2>1. Fits(l, p.kind)
    BY <1>4, AlikeFits
  <2>2. ASSUME InPlace(t) PROVE Good(task[t], p, inst'[task[t].target])
    BY <1>0, <1>1, <2>2
  <2>3. l.target = task[t].target
    BY <1>4 DEF Alike
  <2>4. ASSUME InPlace(t) PROVE Good(l, p, inst'[l.target])
    BY <1>4, <2>2, <2>3, <2>4, AlikeGood
  <2> QED BY <2>1, <2>4 DEF Stays
<1> QED BY <1>1, <1>2, <1>3, <1>4

LEMMA ReadStays ==
  ASSUME NEW t \in Tasks, On(task, Tasks), Fits(task[t], params[t].kind),
         NEW k, Read(t, k), Fits(k, params[t].kind),
         InPlace(t) => Good(k, params[t], inst[k.target])
  PROVE  Stays(t)
<1>1. InPlace(t) => Good(task[t], params[t], inst[task[t].target])
  BY DEF InPlace, Good
<1>2. Call(t, TRUE, inst, k)
  BY DEF Read
<1> QED BY <1>1, <1>2, CallStays

\* A read that may only end the task.
LEMMA ReadEnds ==
  ASSUME NEW t \in Tasks, On(task, Tasks), Fits(task[t], params[t].kind), NEW r,
         Read(t, EndedAs(t, r))
  PROVE  Stays(t)
<1> DEFINE k == EndedAs(t, r)
<1>1. On(k, Known) /\ k.pc = "done"
  BY OnEnded DEF Fits
<1>2. Fits(k, params[t].kind) /\ Good(k, params[t], inst[k.target])
  BY <1>1, Ends
<1> HIDE DEF k
<1> QED BY <1>2, ReadStays DEF k

\* What holds of a single task when it takes a step.
Acting(t) == t \in Tasks /\ Forms /\ params[t].kind # "pool" /\ Fits(task[t], params[t].kind)

LEMMA ActingIs ==
  ASSUME NEW t, Acting(t)
  PROVE  /\ t \in Tasks /\ On(task, Tasks) /\ On(inst, Ids) /\ params[t] \in Param
         /\ On(task[t], Known) /\ params[t].kind \in Verbs \cup {"present", "absent"}
         /\ Fits(task[t], params[t].kind) /\ EagerReboot
         /\ \A i \in Ids : Row(inst[i])
<1>1. params \in [Tasks -> Param] /\ t \in Tasks
  BY DEF Acting, Forms
<1>2. params[t] \in Param
  BY <1>1
<1>3. params[t].kind \in Verbs \cup {"present", "absent"}
  BY <1>2 DEF Acting, Param, Verbs
<1> QED BY <1>1, <1>2, <1>3 DEF Acting, Forms, Fits

LEMMA VerbIs ==
  ASSUME EagerReboot, NEW g \in Verbs
  PROVE  /\ Goal(g) = Verb(g).goal /\ Verb(g).goal \in {"RUNNING", "STOPPED"}
         /\ Verb(g).to # Verb(g).from
<1>1. CASE g = "running"
  BY <1>1 DEF Goal, Verb
<1>2. CASE g = "stopped"
  BY <1>2 DEF Goal, Verb
<1>3. CASE g = "rebooted"
  BY <1>3 DEF Goal, Verb
<1> QED BY <1>1, <1>2, <1>3 DEF Verbs

LEMMA StartStays ==
  ASSUME NEW t, Acting(t), Start(t)
  PROVE  Stays(t)
<1> DEFINE l == task'[t]
           a == At(t, "find")
<1>0. t \in Tasks /\ On(task, Tasks) /\ On(task[t], Known) /\ Fits(task[t], params[t].kind)
  BY ActingIs
<1>1. On(a, Known) /\ a.pc = "find" /\ a.result = task[t].result /\ a.target = task[t].target
  BY <1>0 DEF At, On, Known
<1>2. PICK b : Set(t, [a EXCEPT !.clean = b])
  BY DEF Start, Acting
<1>3. l = [a EXCEPT !.clean = b]
  BY <1>0, <1>2 DEF Set, On
<1>4. On(l, Known) /\ l.pc = "find" /\ l.result = task[t].result /\ l.target = task[t].target
  <2> HIDE DEF a
  <2> QED BY <1>1, <1>3 DEF On, Known
<1>5. task[t].pc = "start"
  BY DEF Start
<1>6. Placed(task[t])
  BY <1>0 DEF Fits
<1> HIDE DEF l
<1>7. Placed(l)
  BY <1>4, <1>5, <1>6 DEF Placed
<1>8. Apt(l, params[t].kind)
  BY <1>4 DEF Apt
<1>9. Armed(l, params[t].kind)
  BY <1>4 DEF Armed
<1>10. Good(l, params[t], inst'[l.target])
  BY <1>4 DEF Good, Kept, Settled
<1> QED BY <1>4, <1>7, <1>8, <1>9, <1>10 DEF Stays, Fits, l

LEMMA RefindStays ==
  ASSUME NEW t, Acting(t), Refind(t)
  PROVE  Stays(t)
BY ActingIs, ReadEnds DEF Refind

LEMMA TimeOutStays ==
  ASSUME NEW t, Acting(t), TimeOut(t)
  PROVE  Stays(t)
<1>1. t \in Tasks /\ On(task, Tasks) /\ On(task[t], Known)
  BY ActingIs
<1>2. task'[t] = EndedAs(t, "failed")
  BY <1>1 DEF TimeOut, Set, On
<1>3. On(task'[t], Known) /\ task'[t].pc = "done"
  BY <1>1, <1>2, OnEnded
<1> QED BY <1>3, Ends DEF Stays

\* A wait that is over: the instance is where it was to be.
LEMMA PollStays ==
  ASSUME NEW t, Acting(t), Poll(t)
  PROVE  Stays(t)
<1> DEFINE k == task[t]
           g == params[t].kind
           i == Head(k.todo)
<1>0. /\ t \in Tasks /\ On(task, Tasks) /\ On(k, Known) /\ Fits(k, g)
      /\ g \in Verbs \cup {"present", "absent"} /\ EagerReboot
  BY ActingIs
<1>1. k.pc = "await" /\ k.todo = <<k.target>> /\ k.goal = Goal(g) /\ k.target \in Ids /\ k.result = "none"
  BY <1>0 DEF Poll, Fits, Armed, Placed
<1>2. i = k.target /\ Tail(k.todo) = <<>>
  BY <1>1
<1>3. CASE inst[i].state = k.goal /\ Read(t, Waited(t))
  <2> DEFINE w == [k EXCEPT !.todo = Tail(@), !.tries = 0]
             v == Waited(t)
  <2>1. On(w, Known) /\ w.todo = <<>> /\ w.target = k.target /\ w.result = "none" /\ w.pc = "await"
    BY <1>0, <1>1, <1>2 DEF On, Known
  <2>2. v = IF g = "absent" THEN [w EXCEPT !.pc = "done", !.result = "changed"]
            ELSE [w EXCEPT !.pc = "refind"]
    BY <2>1 DEF Waited, Acting
  <2>3. CASE g = "absent"
    <3>1. On(v, Known) /\ v.pc = "done"
      <4> HIDE DEF w
      <4> QED BY <2>1, <2>2, <2>3 DEF On, Known
    <3>2. Fits(v, g) /\ Good(v, params[t], inst[v.target])
      BY <3>1, Ends
    <3> HIDE DEF v
    <3> QED BY <1>0, <1>3, <3>2, ReadStays DEF v
  <2>4. CASE g # "absent"
    <3>1. On(v, Known) /\ v.pc = "refind" /\ v.target = k.target /\ v.result = "none"
      <4> HIDE DEF w
      <4> QED BY <2>1, <2>2, <2>4 DEF On, Known
    <3> HIDE DEF v
    <3>2. Placed(v)
      BY <1>1, <3>1 DEF Placed
    <3>3. Apt(v, g)
      BY <2>4, <3>1 DEF Apt
    <3>4. Armed(v, g)
      BY <3>1 DEF Armed
    <3>5. Fits(v, g)
      BY <3>1, <3>2, <3>3, <3>4 DEF Fits
    <3>6. inst[v.target].state = Goal(params[t].kind)
      BY <1>1, <1>2, <1>3, <3>1
    <3>7. Settled(v, params[t], inst[v.target])
      BY <3>1, <3>6 DEF Settled
    <3>8. InPlace(t) => Kept(v, params[t], inst[v.target])
      <4> SUFFICES ASSUME InPlace(t) PROVE Kept(v, params[t], inst[v.target])
        OBVIOUS
      <4>1. Kept(k, params[t], inst[k.target])
        BY DEF InPlace
      <4> HIDE DEF k
      <4> QED BY <1>1, <3>1, <4>1 DEF Kept
    <3> QED BY <1>0, <1>3, <3>5, <3>7, <3>8, ReadStays DEF v, Good
  <2> QED BY <2>3, <2>4
<1>4. CASE Read(t, EndedAs(t, "failed"))
  BY <1>0, <1>4, ReadEnds
<1>5. CASE Read(t, [k EXCEPT !.tries = 0])
  <2> DEFINE v == [k EXCEPT !.tries = 0]
  <2>1. On(v, Known) /\ Alike(v, k)
    BY <1>0 DEF On, Known, Alike
  <2>2. v.target = k.target
    BY <2>1 DEF Alike
  <2> HIDE DEF v
  <2>3. Fits(v, g)
    BY <1>0, <2>1, AlikeFits
  <2>4. InPlace(t) => Good(v, params[t], inst[v.target])
    BY <2>1, <2>2, AlikeGood DEF InPlace, Good
  <2> QED BY <1>0, <1>5, <2>3, <2>4, ReadStays DEF v
<1> QED BY <1>3, <1>4, <1>5 DEF Poll

\* A wait for the instance the task has, or has just been given.
LEMMA Awaits ==
  ASSUME NEW k, NEW g, On(k, Known), k.pc = "await", k.result = "none", k.target \in Ids,
         k.todo = <<k.target>>, k.goal = Goal(g)
  PROVE  Fits(k, g) /\ \A p, r : Settled(k, p, r)
<1>1. Placed(k) /\ Apt(k, g)
  BY DEF Placed, Apt
<1>2. Armed(k, g)
  BY DEF Armed
<1>3. \A p, r : Settled(k, p, r)
  BY DEF Settled
<1> QED BY <1>1, <1>2, <1>3 DEF Fits

LEMMA DeleteStays ==
  ASSUME NEW t, Acting(t), Delete(t)
  PROVE  Stays(t)
<1> DEFINE k == task[t]
           g == params[t].kind
           i == k.target
           a == At(t, "await")
<1>0. t \in Tasks /\ On(task, Tasks) /\ On(k, Known) /\ Fits(k, g)
  BY ActingIs
<1>1. k.pc = "delete" /\ g = "absent" /\ k.target \in Ids /\ k.result = "none"
  BY <1>0 DEF Delete, Fits, Apt, Placed
<1>2. CASE Read(t, EndedAs(t, "changed"))
  BY <1>0, <1>2, ReadEnds
<1>3. CASE Call(t, Killable(i), Killed(i, t), [a EXCEPT !.goal = "GONE", !.todo = <<i>>])
  <2> DEFINE w == [a EXCEPT !.goal = "GONE", !.todo = <<i>>]
             e == Killed(i, t)
  <2>1. On(a, Known) /\ a.pc = "await" /\ a.result = k.result /\ a.target = k.target
    BY <1>0 DEF At, On, Known
  <2>2. /\ On(w, Known) /\ w.pc = "await" /\ w.result = k.result /\ w.target = k.target
        /\ w.goal = "GONE" /\ w.todo = <<i>>
    <3> HIDE DEF a
    <3> QED BY <2>1 DEF On, Known
  <2>3. Goal(g) = "GONE"
    BY <1>1 DEF Goal
  <2>4. Good(k, params[t], e[k.target])
    BY <1>1 DEF Good, Kept, Settled
  <2>5. Killable(i) \in BOOLEAN
    BY DEF Killable
  <2> HIDE DEF w, e
  <2>6. Fits(w, g) /\ \A p, r : Settled(w, p, r)
    BY <1>1, <2>2, <2>3, Awaits
  <2>7. Good(w, params[t], e[w.target])
    BY <1>1, <2>6 DEF Good, Kept
  <2> QED BY <1>0, <1>3, <2>4, <2>5, <2>6, <2>7, CallStays DEF w, e
<1> QED BY <1>2, <1>3 DEF Delete

LEMMA PowerStays ==
  ASSUME NEW t, Acting(t), Power(t)
  PROVE  Stays(t)
<1> DEFINE k == task[t]
           g == params[t].kind
           i == k.target
           y == Verb(g)
           a == At(t, "await")
           w == [a EXCEPT !.goal = y.goal, !.todo = <<i>>]
           e == [inst EXCEPT ![i].state = y.to, ![i].asked = y.to = y.from]
<1>0. t \in Tasks /\ On(task, Tasks) /\ On(k, Known) /\ Fits(k, g) /\ EagerReboot
  BY ActingIs
<1>1. k.pc = "power" /\ g \in Verbs /\ k.target \in Ids /\ k.result = "none"
  BY <1>0 DEF Power, Fits, Apt, Placed
<1>2. Goal(g) = y.goal /\ g # "present"
  BY <1>0, <1>1, VerbIs DEF Verbs
<1>3. Call(t, inst[i].state = y.from, e, w)
  BY DEF Power
<1>4. On(a, Known) /\ a.pc = "await" /\ a.result = k.result /\ a.target = k.target
  BY <1>0 DEF At, On, Known
<1> HIDE DEF y
<1>5. /\ On(w, Known) /\ w.pc = "await" /\ w.result = k.result /\ w.target = k.target
      /\ w.goal = y.goal /\ w.todo = <<i>>
  <2> HIDE DEF a
  <2> QED BY <1>4 DEF On, Known
<1>6. Good(k, params[t], e[k.target])
  BY <1>1 DEF Good, Kept, Settled
<1> HIDE DEF w, e
<1>7. Fits(w, g) /\ \A p, r : Settled(w, p, r)
  BY <1>1, <1>2, <1>5, Awaits
<1>8. Good(w, params[t], e[w.target])
  BY <1>2, <1>7 DEF Good, Kept
<1> QED BY <1>0, <1>3, <1>6, <1>7, <1>8, CallStays

LEMMA WrittenIs ==
  ASSUME NEW t, NEW k, On(k, Known), k.pc = "write", k.result = "none", k.target \in Ids,
         k.writes \in Seq(Fields)
  PROVE  /\ k.writes # <<>> => Written(t, k) = k
         /\ Fits(Written(t, k), "present") /\ Written(t, k).target = k.target
         /\ Written(t, k).snap = k.snap
         /\ k.writes = <<>> => Written(t, k).pc = IF k.snap = "STOPPED" THEN "refind" ELSE "await"
<1> DEFINE v == Written(t, k)
<1>1. CASE k.writes # <<>>
  <2>1. v = k
    BY <1>1 DEF Written
  <2>2. Placed(k) /\ Apt(k, "present")
    BY DEF Placed, Apt
  <2>3. Armed(k, "present")
    BY <1>1 DEF Armed
  <2> QED BY <1>1, <2>1, <2>2, <2>3 DEF Fits
<1>2. CASE k.writes = <<>> /\ k.snap = "STOPPED"
  <2>1. v = [k EXCEPT !.pc = "refind"]
    BY <1>2 DEF Written
  <2>2. On(v, Known) /\ v.pc = "refind" /\ v.result = "none" /\ v.target = k.target /\ v.snap = k.snap
    BY <2>1 DEF On, Known
  <2> HIDE DEF v
  <2>3. Placed(v) /\ Apt(v, "present")
    BY <2>2 DEF Placed, Apt
  <2>4. Armed(v, "present")
    BY <2>2 DEF Armed
  <2> QED BY <1>2, <2>2, <2>3, <2>4 DEF Fits, v
<1>3. CASE k.writes = <<>> /\ k.snap # "STOPPED"
  <2>1. v = [k EXCEPT !.pc = "await", !.goal = "RUNNING", !.todo = <<k.target>>]
    BY <1>3 DEF Written
  <2>2. /\ On(v, Known) /\ v.pc = "await" /\ v.result = "none" /\ v.target = k.target
        /\ v.snap = k.snap /\ v.goal = "RUNNING" /\ v.todo = <<k.target>>
    BY <2>1 DEF On, Known
  <2> HIDE DEF v
  <2>3. Fits(v, "present")
    BY <2>2, Awaits DEF Goal
  <2> QED BY <1>3, <2>2, <2>3 DEF v
<1> QED BY <1>1, <1>2, <1>3

LEMMA InToSet ==
  ASSUME NEW S, NEW s \in Seq(S)
  PROVE  ToSet(s) = {s[n] : n \in 1 .. Len(s)}
BY DEF ToSet

LEMMA ToSetTail ==
  ASSUME NEW S, NEW s \in Seq(S), s # <<>>
  PROVE  /\ \A x \in ToSet(s) : x = Head(s) \/ x \in ToSet(Tail(s))
         /\ \A x \in ToSet(Tail(s)) : x \in ToSet(s)
<1> DEFINE r == Tail(s)
<1>1. Len(r) = Len(s) - 1 /\ r \in Seq(S)
  OBVIOUS
<1>2. ASSUME NEW n \in 1 .. Len(s), n # 1 PROVE \E m \in 1 .. Len(r) : s[n] = r[m]
  <2>1. n - 1 \in 1 .. Len(r) /\ r[n - 1] = s[n]
    BY <1>2
  <2> QED BY <2>1
<1>3. ASSUME NEW n \in 1 .. Len(r) PROVE \E m \in 1 .. Len(s) : r[n] = s[m]
  <2>1. n + 1 \in 1 .. Len(s) /\ r[n] = s[n + 1]
    BY <1>1, <1>3
  <2> QED BY <2>1
<1>4. ToSet(r) = {r[n] : n \in 1 .. Len(r)} /\ ToSet(s) = {s[n] : n \in 1 .. Len(s)}
  BY <1>1, InToSet
<1>5. s[1] = Head(s)
  OBVIOUS
<1> HIDE DEF r
<1>6. (\A x \in ToSet(s) : x = Head(s) \/ x \in ToSet(r)) /\ (\A x \in ToSet(r) : x \in ToSet(s))
  BY <1>2, <1>3, <1>4, <1>5
<1> QED BY <1>6 DEF r

LEMMA WriteStays ==
  ASSUME NEW t, Acting(t), Write(t)
  PROVE  Stays(t)
<1> DEFINE k == task[t]
           p == params[t]
           i == k.target
           f == Head(k.writes)
           e == [inst EXCEPT ![i].conf[f] = p.want[f]]
           w == [k EXCEPT !.tries = 0, !.writes = Tail(@)]
           v == Written(t, w)
<1>0. /\ t \in Tasks /\ On(task, Tasks) /\ On(inst, Ids) /\ On(k, Known) /\ Fits(k, p.kind)
      /\ \A j \in Ids : Row(inst[j])
  BY ActingIs
<1>1. /\ k.pc = "write" /\ p.kind = "present" /\ i \in Ids /\ k.result = "none"
      /\ k.writes \in Seq(Fields) /\ k.writes # <<>>
  BY <1>0 DEF Write, Fits, Apt, Placed, Armed
<1>2. f \in Fields /\ Tail(k.writes) \in Seq(Fields)
  BY <1>1
<1>3. /\ \A x \in ToSet(k.writes) : x = f \/ x \in ToSet(Tail(k.writes))
      /\ \A x \in ToSet(Tail(k.writes)) : x \in ToSet(k.writes)
  BY <1>1, ToSetTail
<1>4. /\ e[i].state = inst[i].state
      /\ \A x \in Fields : e[i].conf[x] = IF x = f THEN p.want[f] ELSE inst[i].conf[x]
  <2>1. On(inst[i], Columns) /\ On(inst[i].conf, Fields)
    BY <1>0, <1>1 DEF Row
  <2>2. e[i] = [inst[i] EXCEPT !.conf = [@ EXCEPT ![f] = p.want[f]]]
    BY <1>0, <1>1 DEF On
  <2>3. e[i].state = inst[i].state /\ e[i].conf = [inst[i].conf EXCEPT ![f] = p.want[f]]
    <3> DEFINE c == [inst[i].conf EXCEPT ![f] = p.want[f]]
    <3>1. e[i] = [inst[i] EXCEPT !.conf = c]
      BY <2>2
    <3>2. e[i].state = inst[i].state /\ e[i].conf = c
      <4> HIDE DEF c, e
      <4> QED BY <2>1, <3>1 DEF On, Columns
    <3> QED BY <3>2, Zenon
  <2>4. \A x \in Fields : e[i].conf[x] = IF x = f THEN p.want[f] ELSE inst[i].conf[x]
    <3> DEFINE g == inst[i].conf
               y == p.want[f]
    <3>1. g = [x \in Fields |-> g[x]] /\ e[i].conf = [g EXCEPT ![f] = y]
      BY <2>1, <2>3 DEF On
    <3> HIDE DEF g, y, e
    <3>2. \A x \in Fields : e[i].conf[x] = IF x = f THEN y ELSE g[x]
      BY <3>1
    <3> QED BY <3>2 DEF g, y
  <2> QED BY <2>3, <2>4
<1>5. /\ On(w, Known) /\ w.pc = "write" /\ w.result = "none" /\ w.target = i /\ w.snap = k.snap
      /\ w.writes = Tail(k.writes)
  BY <1>0, <1>1 DEF On, Known
<1>6. Call(t, Listed(i) /\ (f = "type" => inst[i].state = "STOPPED"), e, v)
  BY DEF Write
<1> HIDE DEF e, w
<1>7. /\ w.writes # <<>> => v = w
      /\ Fits(v, "present") /\ v.target = i /\ v.snap = k.snap
      /\ w.writes = <<>> => v.pc = IF k.snap = "STOPPED" THEN "refind" ELSE "await"
  <2>1. w.writes \in Seq(Fields) /\ w.target \in Ids /\ w.result = "none"
    BY <1>1, <1>2, <1>5
  <2>2. /\ w.writes # <<>> => Written(t, w) = w
        /\ Fits(Written(t, w), "present") /\ Written(t, w).target = w.target
        /\ Written(t, w).snap = w.snap
        /\ w.writes = <<>> => Written(t, w).pc = IF w.snap = "STOPPED" THEN "refind" ELSE "await"
    BY <1>5, <2>1, WrittenIs, Zenon
  <2> QED BY <1>5, <2>2
<1> HIDE DEF v
<1>8. ASSUME InPlace(t) PROVE Good(k, p, e[i]) /\ Good(v, p, e[i])
  <2>1. /\ \A x \in Fields : p.want[x] \in {None, inst[i].conf[x]} \/ x \in ToSet(k.writes)
        /\ k.snap = "STOPPED" => inst[i].state = "STOPPED"
    BY <1>1, <1>8 DEF InPlace, Kept, Settled
  <2>2. \A x \in Fields : p.want[x] \in {None, e[i].conf[x]} \/ x \in ToSet(Tail(k.writes))
    BY <1>3, <1>4, <2>1
  <2>3. Good(k, p, e[i])
    BY <1>1, <1>3, <1>4, <2>1, <2>2 DEF Good, Kept, Settled
  <2>4. CASE w.writes # <<>>
    BY <1>1, <1>4, <1>5, <1>7, <2>1, <2>2, <2>4 DEF Good, Kept, Settled
  <2>5. CASE w.writes = <<>>
    <3>1. \A x \in Fields : p.want[x] \in {None, e[i].conf[x]}
      <4>1. ToSet(<<>>) = {}
        BY DEF ToSet
      <4> QED BY <1>5, <2>2, <2>5, <4>1
    <3>2. v.pc = IF k.snap = "STOPPED" THEN "refind" ELSE "await"
      BY <1>7, <2>5
    <3> QED BY <1>1, <1>4, <1>7, <2>1, <3>1, <3>2 DEF Good, Kept, Settled
  <2> QED BY <2>3, <2>4, <2>5
<1>9. (Listed(i) /\ (f = "type" => inst[i].state = "STOPPED")) \in BOOLEAN
  BY DEF Listed
<1> HIDE DEF k, p
<1> QED BY <1>0, <1>1, <1>6, <1>7, <1>8, <1>9, CallStays DEF k, p

\* A launch gives the instance what is asked for.
LEMMA LaunchedIs ==
  ASSUME NEW t \in Tasks, NEW n, On(inst, Ids), \A j \in Ids : Row(inst[j])
  PROVE  /\ On(Launched(n, params[t]), Ids)
         /\ \A j \in Ids : Row(Launched(n, params[t])[j])
         /\ \A j \in Ids \ NewIds(n) : Launched(n, params[t])[j] = inst[j]
         /\ \A j \in NewIds(n), x \in Fields :
              params[t].want[x] \in {None, Launched(n, params[t])[j].conf[x]}
<1> DEFINE p == params[t]
           l == Launched(n, p)
           m == CHOOSE m \in NewIds(n) : \A j \in NewIds(n) : m <= j
<1>1. On(l, Ids) /\ \A j \in Ids \ NewIds(n) : l[j] = inst[j]
  BY DEF Launched, On
<1>2. ASSUME NEW j \in NewIds(n)
      PROVE  Row(l[j]) /\ \A x \in Fields : p.want[x] \in {None, l[j].conf[x]}
  <2> DEFINE c == [x \in Fields |-> IF p.want[x] = None THEN inst[j].conf[x] ELSE p.want[x]]
             s == p.kind = "pool"
  <2>1. j \in Ids
    BY DEF NewIds, Unborn
  <2>2. l[j] = [inst[j] EXCEPT !.state = "PENDING", !.name = p.name, !.pool = s,
                               !.batch = m, !.conf = c]
    BY <2>1, Zenon DEF Launched
  <2>3. On(inst[j], Columns) /\ ~inst[j].asked
    BY <2>1 DEF Row
  <2>4. On(c, Fields) /\ \A x \in Fields : p.want[x] \in {None, c[x]}
    BY DEF On
  <2> HIDE DEF c, m, s
  <2>5. On(l[j], Columns) /\ l[j].conf = c /\ l[j].asked = inst[j].asked
    BY <2>2, <2>3 DEF On, Columns
  <2> QED BY <2>3, <2>4, <2>5 DEF Row
<1>3. \A j \in Ids : Row(l[j])
  BY <1>1, <1>2
<1> QED BY <1>1, <1>2, <1>3

LEMMA CreateStays ==
  ASSUME NEW t, Acting(t), Create(t)
  PROVE  Stays(t)
<1> DEFINE k == task[t]
           p == params[t]
           i == CHOOSE i \in NewIds(1) : TRUE
           e == Launched(1, p)
           a == At(t, "await")
           w == [a EXCEPT !.goal = "RUNNING", !.todo = <<i>>, !.target = i]
<1>0. /\ t \in Tasks /\ On(task, Tasks) /\ On(inst, Ids) /\ On(k, Known) /\ Fits(k, p.kind)
      /\ \A j \in Ids : Row(inst[j])
  BY ActingIs
<1>1. k.pc = "create" /\ p.kind = "present" /\ k.result = "none"
  BY <1>0 DEF Create, Fits, Apt, Placed
<1>2. CASE Read(t, EndedAs(t, "changed"))
  BY <1>0, <1>2, ReadEnds
<1>3. CASE Call(t, NewIds(1) # {}, e, w)
  <2>1. On(a, Known) /\ a.pc = "await" /\ a.result = k.result
    BY <1>0 DEF At, On, Known
  <2> HIDE DEF i
  <2>2. /\ On(w, Known) /\ w.pc = "await" /\ w.result = k.result /\ w.target = i
        /\ w.goal = "RUNNING" /\ w.todo = <<i>>
    <3> HIDE DEF a
    <3> QED BY <2>1 DEF On, Known
  <2> HIDE DEF e, w
  <2>3. ASSUME NewIds(1) # {} PROVE Fits(w, p.kind) /\ Good(w, p, e[w.target])
    <3>1. i \in NewIds(1)
      BY <2>3 DEF i
    <3>2. i \in Ids
      BY <3>1 DEF NewIds, Unborn
    <3>3. Fits(w, p.kind) /\ Settled(w, p, e[i])
      BY <1>1, <2>2, <3>2, Awaits DEF Goal
    <3>4. \A x \in Fields : p.want[x] \in {None, e[i].conf[x]}
      BY <1>0, <3>1, LaunchedIs DEF e
    <3> QED BY <2>2, <3>3, <3>4 DEF Good, Kept
  <2>4. Good(k, p, e[k.target])
    BY <1>1 DEF Good, Kept, Settled
  <2> QED BY <1>0, <1>3, <2>3, <2>4, CallStays
<1> QED BY <1>2, <1>3 DEF Create

LEMMA ToSetConcat ==
  ASSUME NEW S, NEW a \in Seq(S), NEW b \in Seq(S)
  PROVE  a \o b \in Seq(S) /\ ToSet(a) \subseteq ToSet(a \o b) /\ ToSet(b) \subseteq ToSet(a \o b)
<1>1. a \o b \in Seq(S) /\ Len(a \o b) = Len(a) + Len(b)
  OBVIOUS
<1>2. ASSUME NEW n \in 1 .. Len(a) PROVE \E m \in 1 .. Len(a \o b) : a[n] = (a \o b)[m]
  <2>1. n \in 1 .. Len(a \o b) /\ (a \o b)[n] = a[n]
    BY <1>1
  <2> QED BY <2>1
<1>3. ASSUME NEW n \in 1 .. Len(b) PROVE \E m \in 1 .. Len(a \o b) : b[n] = (a \o b)[m]
  <2>1. Len(a) + n \in 1 .. Len(a \o b) /\ (a \o b)[Len(a) + n] = b[n]
    BY <1>1
  <2> QED BY <2>1
<1> DEFINE c == a \o b
<1>4. /\ ToSet(a) = {a[n] : n \in 1 .. Len(a)} /\ ToSet(b) = {b[n] : n \in 1 .. Len(b)}
      /\ ToSet(c) = {c[n] : n \in 1 .. Len(c)}
  BY <1>1, InToSet
<1>5. /\ \A n \in 1 .. Len(a) : \E m \in 1 .. Len(c) : a[n] = c[m]
      /\ \A n \in 1 .. Len(b) : \E m \in 1 .. Len(c) : b[n] = c[m]
  BY <1>2, <1>3
<1> HIDE DEF c
<1>6. ToSet(a) \subseteq ToSet(c) /\ ToSet(b) \subseteq ToSet(c)
  BY <1>4, <1>5
<1> QED BY <1>1, <1>6 DEF c

\* Whatever is asked for and differs is on the list.
LEMMA DriftsIs ==
  ASSUME NEW p, NEW i
  PROVE  /\ Drifts(p, i) \in Seq(Fields)
         /\ \A f \in Fields \ {"image"} :
              p.want[f] \in {None, inst[i].conf[f]} \/ f \in ToSet(Drifts(p, i))
<1> DEFINE due(f) == IF p.want[f] # None /\ (f = "password" \/ p.want[f] # inst[i].conf[f])
                     THEN <<f>> ELSE <<>>
           ab  == due("attributes") \o due("tags")
           abc == ab \o due("type")
           all == abc \o due("password")
<1>1. \A f \in Fields : due(f) \in Seq(Fields)
  OBVIOUS
<1>2. \A f \in Fields : p.want[f] \in {None, inst[i].conf[f]} \/ f \in ToSet(due(f))
  <2> SUFFICES ASSUME NEW f \in Fields, p.want[f] \notin {None, inst[i].conf[f]}
               PROVE  f \in ToSet(due(f))
    OBVIOUS
  <2>1. due(f) = <<f>>
    OBVIOUS
  <2>2. ToSet(<<f>>) = {f}
    BY DEF ToSet
  <2> HIDE DEF due
  <2> QED BY <2>1, <2>2
<1>3. {"attributes", "tags", "type", "password"} = Fields \ {"image"}
  BY DEF Fields
<1>4. Drifts(p, i) = all
  BY DEF Drifts
<1> HIDE DEF due
<1>5. ab \in Seq(Fields) /\ ToSet(due("attributes")) \cup ToSet(due("tags")) \subseteq ToSet(ab)
  BY <1>1, <1>3, ToSetConcat
<1>6. abc \in Seq(Fields) /\ ToSet(ab) \cup ToSet(due("type")) \subseteq ToSet(abc)
  <2> HIDE DEF ab
  <2> QED BY <1>1, <1>3, <1>5, ToSetConcat
<1>7. all \in Seq(Fields) /\ ToSet(abc) \cup ToSet(due("password")) \subseteq ToSet(all)
  <2> HIDE DEF abc
  <2> QED BY <1>1, <1>3, <1>6, ToSetConcat
<1> HIDE DEF ab, abc, all
<1>8. \A f \in Fields \ {"image"} : ToSet(due(f)) \subseteq ToSet(all)
  BY <1>3, <1>5, <1>6, <1>7
<1> QED BY <1>2, <1>4, <1>7, <1>8

\* A record that only moved on.
LEMMA AtIs ==
  ASSUME NEW t, On(task[t], Known), NEW at
  PROVE  /\ On(At(t, at), Known) /\ At(t, at).pc = at /\ At(t, at).result = task[t].result
         /\ At(t, at).target = task[t].target
BY DEF At, On, Known

LEMMA PlanPresentFits ==
  ASSUME NEW t, Acting(t), task[t].pc = "find", params[t].kind = "present",
         NEW i \in Ids \cup {None}
  PROVE  LET l == PlanPresent(t, i)
         IN  Fits(l, "present") /\ Good(l, params[t], inst[l.target])
<1> DEFINE k == task[t]
           p == params[t]
           l == PlanPresent(t, i)
           a == At(t, "write")
           w == [a EXCEPT !.target = i, !.snap = inst[i].state, !.writes = Drifts(p, i)]
<1>0. On(k, Known) /\ Fits(k, p.kind) /\ None \notin Ids
  BY ActingIs, CvmAssumption DEF Ids
<1>1. k.target = None /\ k.result = "none"
  BY <1>0 DEF Fits, Placed
<1>2. ASSUME NEW r PROVE Fits(EndedAs(t, r), "present") /\ Good(EndedAs(t, r), p, inst[EndedAs(t, r).target])
  <2> DEFINE e == EndedAs(t, r)
  <2>1. On(e, Known) /\ e.pc = "done"
    BY <1>0, OnEnded, ActingIs
  <2> HIDE DEF e
  <2>2. Fits(e, "present") /\ Good(e, p, inst[e.target])
    BY <2>1, Ends
  <2> QED BY <2>2 DEF e
<1>3. ASSUME l = At(t, "create") PROVE Fits(l, "present") /\ Good(l, p, inst[l.target])
  <2>1. On(l, Known) /\ l.pc = "create" /\ l.result = "none" /\ l.target = None
    BY <1>0, <1>1, <1>3, AtIs
  <2> HIDE DEF l
  <2>2. Placed(l) /\ Apt(l, "present")
    BY <2>1 DEF Placed, Apt
  <2>3. Armed(l, "present")
    BY <2>1 DEF Armed
  <2> QED BY <2>1, <2>2, <2>3 DEF Fits, Good, Kept, Settled, l
<1>4. ASSUME l = w, i \in Ids, w.writes # <<>>, p.want["image"] \in {None, inst[i].conf["image"]}
      PROVE  Fits(l, "present") /\ Good(l, p, inst[l.target])
  <2>1. On(a, Known) /\ a.pc = "write" /\ a.result = "none"
    BY <1>0, <1>1, AtIs
  <2>2. /\ On(w, Known) /\ w.pc = "write" /\ w.result = "none" /\ w.target = i
        /\ w.snap = inst[i].state /\ w.writes = Drifts(p, i)
    <3> HIDE DEF a
    <3> QED BY <2>1 DEF On, Known
  <2> HIDE DEF w
  <2>3. /\ w.writes \in Seq(Fields)
        /\ \A f \in Fields \ {"image"} : p.want[f] \in {None, inst[i].conf[f]} \/ f \in ToSet(w.writes)
    BY <2>2, DriftsIs
  <2>4. Placed(w) /\ Apt(w, "present")
    BY <1>4, <2>2 DEF Placed, Apt
  <2>5. Armed(w, "present")
    BY <1>4, <2>2, <2>3 DEF Armed
  <2>6. Kept(w, p, inst[w.target])
    BY <1>4, <2>2, <2>3 DEF Kept
  <2>7. Settled(w, p, inst[w.target])
    BY <2>2 DEF Settled
  <2> HIDE DEF l
  <2> QED BY <1>4, <2>2, <2>4, <2>5, <2>6, <2>7 DEF Fits, Good, l
<1>5. \/ \E r : l = EndedAs(t, r)
      \/ l = At(t, "create")
      \/ /\ l = w /\ i \in Ids /\ w.writes # <<>>
         /\ p.want["image"] \in {None, inst[i].conf["image"]}
  <2> DEFINE c == \/ p.want["image"] \notin {None, inst[i].conf["image"]}
                  \/ "type" \in ToSet(w.writes) /\ w.snap # "STOPPED"
  <2>1. l = IF i = None
            THEN IF None \in {p.want["image"], p.want["type"]} THEN EndedAs(t, "failed")
                 ELSE IF p.check THEN EndedAs(t, "changed") ELSE At(t, "create")
            ELSE IF c THEN EndedAs(t, "failed")
            ELSE IF w.writes = <<>> THEN EndedAs(t, "unchanged")
            ELSE IF p.check THEN EndedAs(t, "changed") ELSE w
    BY DEF PlanPresent
  <2>2. c \/ p.want["image"] \in {None, inst[i].conf["image"]}
    OBVIOUS
  <2> HIDE DEF l, w, c
  <2> QED BY <2>1, <2>2
<1> HIDE DEF l
<1>6. Fits(l, "present") /\ Good(l, p, inst[l.target])
  <2>1. CASE \E r : l = EndedAs(t, r)
    <3>1. PICK r : l = EndedAs(t, r)
      BY <2>1
    <3>2. Fits(EndedAs(t, r), "present") /\ Good(EndedAs(t, r), p, inst[EndedAs(t, r).target])
      BY <1>2
    <3> QED BY <3>1, <3>2
  <2> HIDE DEF w
  <2> QED BY <1>3, <1>4, <1>5, <2>1
<1> QED BY <1>6 DEF l

\* Where a found instance is to be powered, or terminated.
LEMMA PlanOtherFits ==
  ASSUME NEW t, Acting(t), task[t].pc = "find", params[t].kind # "present",
         NEW i \in Ids \cup {None}
  PROVE  LET l == Plan(t, i)
         IN  Fits(l, params[t].kind) /\ Good(l, params[t], inst[l.target])
<1> DEFINE k == task[t]
           p == params[t]
           g == p.kind
           l == Plan(t, i)
           w(at) == [At(t, at) EXCEPT !.target = i]
<1>0. /\ On(k, Known) /\ Fits(k, p.kind) /\ None \notin Ids /\ t \in Tasks
      /\ g \in Verbs \cup {"absent"}
  BY ActingIs, CvmAssumption DEF Ids
<1>1. k.target = None /\ k.result = "none"
  BY <1>0 DEF Fits, Placed
<1>2. ASSUME NEW r, l = EndedAs(t, r) PROVE Fits(l, g) /\ Good(l, p, inst[l.target])
  <2>1. On(l, Known) /\ l.pc = "done"
    BY <1>0, <1>2, OnEnded
  <2> HIDE DEF l
  <2> QED BY <2>1, Ends
<1>3. ASSUME NEW at \in {"power", "delete"}, l = w(at), i \in Ids,
             \/ at = "power" /\ g \in Verbs
             \/ at = "delete" /\ g = "absent"
      PROVE  Fits(l, g) /\ Good(l, p, inst[l.target])
  <2> DEFINE a == At(t, at)
  <2>1. On(a, Known) /\ a.pc = at /\ a.result = "none"
    BY <1>0, <1>1, AtIs
  <2>2. l = [a EXCEPT !.target = i]
    BY <1>3
  <2> HIDE DEF a, l
  <2>3. On(l, Known) /\ l.pc = at /\ l.result = "none" /\ l.target = i
    BY <2>1, <2>2 DEF On, Known
  <2>4. Placed(l) /\ Apt(l, g)
    BY <1>3, <2>3 DEF Placed, Apt
  <2>5. Armed(l, g)
    BY <2>3 DEF Armed
  <2> QED BY <2>3, <2>4, <2>5 DEF Fits, Good, Kept, Settled
<1>4. g = "absent" => Fits(l, g) /\ Good(l, p, inst[l.target])
  <2>0. SUFFICES ASSUME g = "absent" PROVE Fits(l, g) /\ Good(l, p, inst[l.target])
    OBVIOUS
  <2>1. l = IF i = None THEN EndedAs(t, "unchanged")
            ELSE IF p.check THEN EndedAs(t, "changed") ELSE w("delete")
    BY <2>0, Zenon DEF Plan, PlanAbsent
  <2>2. (\E r : l = EndedAs(t, r)) \/ (l = w("delete") /\ i \in Ids)
    <3> HIDE DEF l, w
    <3> QED BY <2>1
  <2>3. CASE \E r : l = EndedAs(t, r)
    BY <1>2, <2>3
  <2>4. CASE l = w("delete") /\ i \in Ids
    <3> HIDE DEF l, w
    <3> QED BY <1>3, <2>0, <2>4
  <2> HIDE DEF l, w
  <2> QED BY <2>2, <2>3, <2>4
<1>5. g \in Verbs => Fits(l, g) /\ Good(l, p, inst[l.target])
  <2>0. SUFFICES ASSUME g \in Verbs PROVE Fits(l, g) /\ Good(l, p, inst[l.target])
    OBVIOUS
  <2> DEFINE y == Verb(g)
  <2>1. g \notin {"present", "absent"}
    BY <2>0 DEF Verbs
  <2>2. l = PlanPower(t, i)
    BY <2>1, Zenon DEF Plan
  <2>3. l = IF i = None THEN EndedAs(t, "failed")
            ELSE IF inst[i].state = y.goal /\ g # "rebooted" THEN EndedAs(t, "unchanged")
            ELSE IF inst[i].state # y.from THEN EndedAs(t, "failed")
            ELSE IF p.check THEN EndedAs(t, "changed") ELSE w("power")
    BY <2>2, Zenon DEF PlanPower
  <2>4. (\E r : l = EndedAs(t, r)) \/ (l = w("power") /\ i \in Ids)
    <3> HIDE DEF l, w, y
    <3> QED BY <2>3
  <2>5. CASE \E r : l = EndedAs(t, r)
    BY <1>2, <2>5
  <2>6. CASE l = w("power") /\ i \in Ids
    <3> HIDE DEF l, w
    <3> QED BY <1>3, <2>0, <2>6
  <2> HIDE DEF l, w
  <2> QED BY <2>4, <2>5, <2>6
<1> QED BY <1>0, <1>4, <1>5

LEMMA FindStays ==
  ASSUME NEW t, Acting(t), Find(t)
  PROVE  Stays(t)
<1> DEFINE p == params[t]
           rows == {i \in Ids : Listed(i) /\ (IF p.id # None THEN i = p.id ELSE inst[i].name = p.name)}
           i == IF rows = {} THEN None ELSE CHOOSE j \in rows : TRUE
           l == Plan(t, i)
<1>0. t \in Tasks /\ On(task, Tasks) /\ Fits(task[t], p.kind) /\ task[t].pc = "find"
  BY ActingIs DEF Find
<1>1. i \in Ids \cup {None}
  <2>1. rows \subseteq Ids
    OBVIOUS
  <2> HIDE DEF rows
  <2> QED BY <2>1
<1>2. Read(t, EndedAs(t, "failed")) \/ Read(t, l)
  BY DEF Find
<1> HIDE DEF i
<1>3. Fits(l, p.kind) /\ Good(l, p, inst[l.target])
  <2>1. CASE p.kind = "present"
    <3>1. l = PlanPresent(t, i)
      BY <2>1, Zenon DEF Plan
    <3> QED BY <1>0, <1>1, <2>1, <3>1, PlanPresentFits
  <2>2. CASE p.kind # "present"
    BY <1>0, <1>1, <2>2, PlanOtherFits
  <2> QED BY <2>1, <2>2
<1>4. CASE Read(t, EndedAs(t, "failed"))
  BY <1>0, <1>4, ReadEnds
<1>5. CASE Read(t, l)
  <2> HIDE DEF l
  <2> QED BY <1>0, <1>3, <1>5, ReadStays
<1> QED BY <1>2, <1>4, <1>5

LEMMA StepStays ==
  ASSUME NEW t, Acting(t), Step(t)
  PROVE  Stays(t)
<1>1. task[t].pc \notin {"count", "recount", "run", "terminate"}
  BY ActingIs DEF Fits, Placed
<1>2. ~Page(t) /\ ~RunBatch(t) /\ ~TerminateOldest(t)
  BY <1>1 DEF Page, RunBatch, TerminateOldest
<1> QED BY <1>2, StartStays, PollStays, TimeOutStays, FindStays, CreateStays, PowerStays,
           DeleteStays, WriteStays, RefindStays DEF Step

-----------------------------------------------------------------------------
(***************************************************************************)
(* A task for a pool stays at the places of such a task.                   *)
(***************************************************************************)
LEMMA CallForPool ==
  ASSUME NEW t \in Tasks, On(task, Tasks), ForPool(task[t]),
         NEW accepted \in BOOLEAN, NEW effect, NEW k, Call(t, accepted, effect, k),
         accepted => ForPool(k)
  PROVE  ForPool(task'[t])
<1>1. \/ accepted /\ task'[t] = k
      \/ On(task'[t], Known) /\ task'[t].pc = "done"
      \/ On(task'[t], Known) /\ Alike(task'[t], task[t])
  BY CallIs DEF ForPool
<1> QED BY <1>1 DEF ForPool, PoolPlaces, Alike

LEMMA ReadForPool ==
  ASSUME NEW t \in Tasks, On(task, Tasks), ForPool(task[t]),
         NEW k, Read(t, k), ForPool(k)
  PROVE  ForPool(task'[t])
BY CallForPool DEF Read

LEMMA DecideForPool ==
  ASSUME NEW t, NEW k, ForPool(k)
  PROVE  ForPool(Decide(t, k))
<1>1. \A r : ForPool([k EXCEPT !.pc = "done", !.result = r])
  BY DEF ForPool, PoolPlaces, On, Known
<1>2. \A d : ForPool([k EXCEPT !.pc = "terminate", !.doomed = d])
  BY DEF ForPool, PoolPlaces, On, Known
<1>3. \A b : ForPool([k EXCEPT !.pc = "run", !.batches = b])
  BY DEF ForPool, PoolPlaces, On, Known
<1>4. \/ \E r : Decide(t, k) = [k EXCEPT !.pc = "done", !.result = r]
      \/ \E d : Decide(t, k) = [k EXCEPT !.pc = "terminate", !.doomed = d]
      \/ \E b : Decide(t, k) = [k EXCEPT !.pc = "run", !.batches = b]
  BY Zenon DEF Decide
<1> HIDE DEF ForPool
<1> QED BY <1>1, <1>2, <1>3, <1>4, Zenon

LEMMA PoolStays ==
  ASSUME NEW t \in Tasks, On(task, Tasks), params[t].kind = "pool", ForPool(task[t]), Step(t)
  PROVE  ForPool(task'[t])
<1> DEFINE k == task[t]
<1>0. On(k, Known) /\ k.pc \in PoolPlaces
  BY DEF ForPool
<1>1. ~Find(t) /\ ~Create(t) /\ ~Power(t) /\ ~Delete(t) /\ ~Write(t) /\ ~Refind(t)
  BY <1>0 DEF PoolPlaces, Find, Create, Power, Delete, Write, Refind
<1>2. CASE Start(t)
  <2> DEFINE a == At(t, "count")
  <2>1. ForPool(a)
    BY <1>0, AtIs DEF ForPool, PoolPlaces
  <2>2. \E b : task'[t] = [a EXCEPT !.clean = b]
    BY <1>2 DEF Start, Set, On
  <2> HIDE DEF a
  <2> QED BY <2>1, <2>2 DEF ForPool, On, Known
<1>3. CASE Page(t)
  <2>1. PICK o, s : LET now == [k EXCEPT !.tries = 0, !.offset = o, !.seen = s]
                    IN  \/ Read(t, now) \/ Read(t, Decide(t, now))
                        \/ Read(t, [now EXCEPT !.pc = "done", !.result = "changed"])
    BY <1>3 DEF Page
  <2> DEFINE now == [k EXCEPT !.tries = 0, !.offset = o, !.seen = s]
  <2>2. ForPool(now)
    BY <1>0 DEF ForPool, On, Known
  <2>3. \/ Read(t, now) \/ Read(t, Decide(t, now))
        \/ Read(t, [now EXCEPT !.pc = "done", !.result = "changed"])
    BY <2>1
  <2> HIDE DEF now
  <2>4. ForPool(Decide(t, now))
    BY <2>2, DecideForPool
  <2>5. ForPool([now EXCEPT !.pc = "done", !.result = "changed"])
    BY <2>2 DEF ForPool, PoolPlaces, On, Known
  <2> QED BY <2>2, <2>3, <2>4, <2>5, ReadForPool
<1>4. ASSUME NEW b, NEW d, NEW g, NEW o
      PROVE  /\ ForPool([At(t, "await") EXCEPT !.batches = b, !.goal = g, !.todo = o])
             /\ ForPool([At(t, "await") EXCEPT !.doomed = d, !.goal = g, !.todo = o])
  <2> DEFINE a == At(t, "await")
  <2>1. On(a, Known) /\ a.pc = "await"
    BY <1>0, AtIs
  <2> HIDE DEF a
  <2>2. ForPool([a EXCEPT !.batches = b, !.goal = g, !.todo = o])
    BY <2>1 DEF ForPool, PoolPlaces, On, Known
  <2>3. ForPool([a EXCEPT !.doomed = d, !.goal = g, !.todo = o])
    BY <2>1 DEF ForPool, PoolPlaces, On, Known
  <2> QED BY <2>2, <2>3 DEF a
<1>5. CASE RunBatch(t)
  <2>1. PICK n, b, o : Call(t, Cardinality(Unborn) >= n, Launched(n, params[t]),
                            [At(t, "await") EXCEPT !.batches = b, !.goal = "RUNNING", !.todo = o])
    BY <1>5 DEF RunBatch
  <2>2. (Cardinality(Unborn) >= n) \in BOOLEAN
    OBVIOUS
  <2> QED BY <1>4, <2>1, <2>2, CallForPool
<1>6. CASE TerminateOldest(t)
  <2>1. PICK i, d : Call(t, Killable(i), Killed(i, t),
                         [At(t, "await") EXCEPT !.doomed = d, !.goal = "GONE", !.todo = <<i>>])
    BY <1>6 DEF TerminateOldest
  <2>2. Killable(i) \in BOOLEAN
    BY DEF Killable
  <2> QED BY <1>4, <2>1, <2>2, CallForPool
<1>7. ASSUME NEW r PROVE ForPool(EndedAs(t, r))
  BY <1>0, OnEnded DEF ForPool, PoolPlaces
<1>8. CASE TimeOut(t)
  <2>1. task'[t] = EndedAs(t, "failed")
    BY <1>8 DEF TimeOut, Set, On
  <2> QED BY <1>7, <2>1
<1>9. CASE Poll(t)
  <2>1. \/ Read(t, Waited(t)) \/ Read(t, EndedAs(t, "failed"))
        \/ Read(t, [k EXCEPT !.tries = 0])
    BY <1>9 DEF Poll
  <2>2. ForPool([k EXCEPT !.tries = 0])
    BY <1>0 DEF ForPool, On, Known
  <2>3. ForPool(Waited(t))
    <3> DEFINE w == [k EXCEPT !.todo = Tail(@), !.tries = 0]
    <3>1. ForPool(w)
      BY <1>0 DEF ForPool, On, Known
    <3>2. \/ Waited(t) = w
          \/ \E at \in PoolPlaces : Waited(t) = [w EXCEPT !.pc = at, !.offset = 0, !.seen = <<>>]
      BY DEF Waited, PoolPlaces
    <3> HIDE DEF w
    <3> QED BY <3>1, <3>2 DEF ForPool, On, Known
  <2> QED BY <1>7, <2>1, <2>2, <2>3, ReadForPool
<1> QED BY <1>1, <1>2, <1>3, <1>5, <1>6, <1>8, <1>9 DEF Step

-----------------------------------------------------------------------------
(***************************************************************************)
(* What a step of any task leaves of the rest.                             *)
(***************************************************************************)
Rows(e) == On(e, Ids) /\ \A j \in Ids : Row(e[j])

LEMMA RowsExcept ==
  ASSUME Rows(inst), NEW i, NEW e, On(e, Ids),
         \A j \in Ids \ {i} : e[j] = inst[j], i \in Ids => Row(e[i])
  PROVE  Rows(e)
BY DEF Rows

LEMMA KilledRows ==
  ASSUME Rows(inst), NEW i, NEW t
  PROVE  Rows(Killed(i, t))
<1> DEFINE e == Killed(i, t)
<1>1. On(e, Ids) /\ \A j \in Ids \ {i} : e[j] = inst[j]
  BY DEF Killed, Rows, On
<1>2. ASSUME i \in Ids PROVE Row(e[i])
  <2>1. e[i] = [inst[i] EXCEPT !.state = "TERMINATING", !.killer = t]
    BY <1>2 DEF Killed, Rows, On
  <2>2. On(inst[i], Columns) /\ On(inst[i].conf, Fields) /\ ~inst[i].asked
    BY <1>2 DEF Rows, Row
  <2> HIDE DEF e
  <2>3. On(e[i], Columns) /\ e[i].conf = inst[i].conf /\ e[i].asked = inst[i].asked
    BY <2>1, <2>2 DEF On, Columns
  <2> QED BY <2>2, <2>3 DEF Row
<1> QED BY <1>1, <1>2, RowsExcept

\* A row that only changed its state, and of which nothing is asked.
Moved(i, s, b) == [inst EXCEPT ![i].state = s, ![i].asked = b]

LEMMA MovedRows ==
  ASSUME Rows(inst), NEW i, NEW s, NEW b, ~b
  PROVE  /\ Rows(Moved(i, s, b)) /\ \A j \in Ids \ {i} : Moved(i, s, b)[j] = inst[j]
         /\ i \in Ids => Moved(i, s, b)[i].state = s /\ Moved(i, s, b)[i].conf = inst[i].conf
<1> DEFINE e == Moved(i, s, b)
<1>1. On(e, Ids) /\ \A j \in Ids \ {i} : e[j] = inst[j]
  BY DEF Rows, On, Moved
<1>2. ASSUME i \in Ids PROVE Row(e[i]) /\ e[i].state = s /\ e[i].conf = inst[i].conf
  <2>1. e[i] = [inst[i] EXCEPT !.state = s, !.asked = b]
    BY <1>2 DEF Rows, On, Moved
  <2>2. On(inst[i], Columns) /\ On(inst[i].conf, Fields)
    BY <1>2 DEF Rows, Row
  <2> HIDE DEF e
  <2>3. On(e[i], Columns) /\ e[i].conf = inst[i].conf /\ e[i].asked = b /\ e[i].state = s
    BY <2>1, <2>2 DEF On, Columns
  <2> QED BY <2>2, <2>3 DEF Row
<1> HIDE DEF e
<1>3. Rows(e)
  BY <1>1, <1>2, RowsExcept
<1> QED BY <1>1, <1>2, <1>3 DEF e

LEMMA WroteRows ==
  ASSUME Rows(inst), NEW i, NEW f, NEW v
  PROVE  Rows([inst EXCEPT ![i].conf[f] = v])
<1> DEFINE e == [inst EXCEPT ![i].conf[f] = v]
<1>1. On(e, Ids) /\ \A j \in Ids \ {i} : e[j] = inst[j]
  BY DEF Rows, On
<1>2. ASSUME i \in Ids PROVE Row(e[i])
  <2>1. e[i] = [inst[i] EXCEPT !.conf = [@ EXCEPT ![f] = v]]
    BY <1>2 DEF Rows, On
  <2>2. On(inst[i], Columns) /\ On(inst[i].conf, Fields) /\ ~inst[i].asked
    BY <1>2 DEF Rows, Row
  <2> HIDE DEF e
  <2>3. /\ On(e[i], Columns) /\ e[i].conf = [inst[i].conf EXCEPT ![f] = v]
        /\ e[i].asked = inst[i].asked
    BY <2>1, <2>2 DEF On, Columns
  <2>4. On(e[i].conf, Fields)
    BY <2>2, <2>3 DEF On
  <2> QED BY <2>2, <2>3, <2>4 DEF Row
<1> HIDE DEF e
<1> QED BY <1>1, <1>2, RowsExcept DEF e

\* What a step of t leaves alone, whatever its kind.
Frame(t) ==
  /\ On(task', Tasks) /\ \A u \in Tasks \ {t} : task'[u] = task[u]
  /\ params' = params /\ Rows(inst')

LEMMA CallFrame ==
  ASSUME NEW t \in Tasks, On(task, Tasks), Rows(inst),
         NEW accepted, NEW effect, NEW k, Call(t, accepted, effect, k), Rows(effect)
  PROVE  Frame(t)
<1>1. inst' \in {inst, effect} /\ params' = params
  BY DEF Call
<1>2. \E l : Set(t, l)
  BY DEF Call
<1>3. On(task', Tasks) /\ \A u \in Tasks \ {t} : task'[u] = task[u]
  BY <1>2 DEF Set, On
<1> QED BY <1>1, <1>3 DEF Frame

LEMMA ReadFrame ==
  ASSUME NEW t \in Tasks, On(task, Tasks), Rows(inst), NEW k, Read(t, k)
  PROVE  Frame(t)
BY CallFrame DEF Read

LEMMA StepFrame ==
  ASSUME NEW t \in Tasks, Forms, Careful(t), Step(t)
  PROVE  /\ Frame(t) /\ task[t].pc # "done"
         /\ task[t].pc = "start" =>
              inst' = inst /\ \A u \in params[t].after : task[u].pc = "done"
<1>0. On(task, Tasks) /\ Rows(inst) /\ On(inst, Ids) /\ (\A j \in Ids : Row(inst[j])) /\ EagerReboot
  BY DEF Forms, Rows
<1>1. CASE Start(t)
  <2>1. inst' = inst /\ params' = params /\ task[t].pc = "start" /\ \E l : Set(t, l)
    BY <1>1 DEF Start
  <2>2. On(task', Tasks) /\ \A u \in Tasks \ {t} : task'[u] = task[u]
    BY <1>0, <2>1 DEF Set, On
  <2> QED BY <1>0, <1>1, <2>1, <2>2 DEF Frame, Start
<1>2. CASE TimeOut(t)
  <2>1. inst' = inst /\ params' = params /\ task[t].pc = "await" /\ \E l : Set(t, l)
    BY <1>2 DEF TimeOut
  <2>2. On(task', Tasks) /\ \A u \in Tasks \ {t} : task'[u] = task[u]
    BY <1>0, <2>1 DEF Set, On
  <2> QED BY <1>0, <2>1, <2>2 DEF Frame
<1>3. CASE Page(t) \/ Poll(t) \/ Find(t) \/ Refind(t)
  <2>1. \E k : Read(t, k)
    BY <1>3 DEF Page, Poll, Find, Refind
  <2>2. task[t].pc \in {"count", "recount", "await", "find", "refind"}
    BY <1>3 DEF Page, Poll, Find, Refind
  <2> QED BY <1>0, <2>1, <2>2, ReadFrame
<1>4. CASE RunBatch(t)
  <2>1. PICK b, n, k : Call(t, b, Launched(n, params[t]), k)
    BY <1>4 DEF RunBatch
  <2>2. Rows(Launched(n, params[t]))
    BY <1>0, LaunchedIs DEF Rows
  <2>3. task[t].pc = "run"
    BY <1>4 DEF RunBatch
  <2> QED BY <1>0, <2>1, <2>2, <2>3, CallFrame
<1>5. CASE TerminateOldest(t)
  <2>1. PICK b, i, k : Call(t, b, Killed(i, t), k)
    BY <1>5 DEF TerminateOldest
  <2>2. task[t].pc = "terminate"
    BY <1>5 DEF TerminateOldest
  <2> QED BY <1>0, <2>1, <2>2, KilledRows, CallFrame
<1>6. CASE Create(t)
  <2>1. (\E k : Read(t, k)) \/ \E b, k : Call(t, b, Launched(1, params[t]), k)
    BY <1>6 DEF Create
  <2>2. Rows(Launched(1, params[t]))
    BY <1>0, LaunchedIs DEF Rows
  <2>3. task[t].pc = "create"
    BY <1>6 DEF Create
  <2> QED BY <1>0, <2>1, <2>2, <2>3, CallFrame, ReadFrame
<1>7. CASE Delete(t)
  <2>1. (\E k : Read(t, k)) \/ \E b, i, k : Call(t, b, Killed(i, t), k)
    BY <1>7 DEF Delete
  <2>2. task[t].pc = "delete"
    BY <1>7 DEF Delete
  <2> QED BY <1>0, <2>1, <2>2, KilledRows, CallFrame, ReadFrame
<1>8. CASE Write(t)
  <2>1. PICK b, i, f, v, k : Call(t, b, [inst EXCEPT ![i].conf[f] = v], k)
    BY <1>8 DEF Write
  <2>2. task[t].pc = "write"
    BY <1>8 DEF Write
  <2> QED BY <1>0, <2>1, <2>2, WroteRows, CallFrame
<1>9. CASE Power(t)
  <2> DEFINE y == Verb(params[t].kind)
             i == task[t].target
             e == Moved(i, y.to, y.to = y.from)
  <2>1. task[t].pc = "power" /\ \E b, k : Call(t, b, e, k)
    BY <1>9 DEF Power, Moved
  <2>2. params[t].kind \in Verbs
    BY <2>1 DEF Careful, ForPool, PoolPlaces, Fits, Apt
  <2>3. y.to # y.from
    BY <1>0, <2>2, VerbIs
  <2> HIDE DEF y
  <2>4. Rows(e)
    BY <1>0, <2>3, MovedRows
  <2> HIDE DEF e
  <2> QED BY <1>0, <2>1, <2>4, CallFrame
<1> QED BY <1>1, <1>2, <1>3, <1>4, <1>5, <1>6, <1>7, <1>8, <1>9 DEF Step

-----------------------------------------------------------------------------
\* While t acts, a task that shares its instance with nobody is at rest, or t only begins.
LEMMA OthersRest ==
  ASSUME SInv, NEW t \in Tasks, Step(t), NEW u \in Tasks \ {t}, Alone(u)
  PROVE  task[u].pc \in {"start", "done"} \/ inst' = inst
<1>1. /\ task[t].pc # "done"
      /\ task[t].pc = "start" => inst' = inst
  BY StepFrame DEF SInv
<1>2. u \in params[t].after \/ t \in params[u].after
  BY DEF Alone
<1>3. /\ t \in params[u].after /\ task[u].pc # "start" => task[t].pc = "done"
      /\ u \in params[t].after /\ task[t].pc # "start" => task[u].pc = "done"
  BY DEF SInv, InTurn
<1> QED BY <1>1, <1>2, <1>3

LEMMA StepSInv ==
  ASSUME SInv, NEW t \in Tasks, Step(t)
  PROVE  SInv'
<1>0. Forms /\ InTurn /\ \A u \in Tasks : Careful(u)
  BY DEF SInv
<1>1. /\ Frame(t) /\ task[t].pc # "done"
      /\ task[t].pc = "start" =>
           inst' = inst /\ \A u \in params[t].after : task[u].pc = "done"
  BY <1>0, StepFrame
<1>2. /\ On(task', Tasks) /\ params' = params /\ Rows(inst')
      /\ \A u \in Tasks \ {t} : task'[u] = task[u]
  BY <1>1 DEF Frame
<1>3. Forms'
  <2>1. Forms' <=> /\ params' \in [Tasks -> Param] /\ On(inst', Ids) /\ On(task', Tasks)
                   /\ (\A i \in Ids : Row(inst'[i])) /\ EagerReboot
    BY DEF Forms, On, Row
  <2> QED BY <1>0, <1>2, <2>1 DEF Forms, Rows
<1>4. InTurn'
  <2> SUFFICES ASSUME NEW a \in Tasks, NEW u \in Tasks,
                      u \in params[a].after, task'[a].pc # "start"
               PROVE  task'[u].pc = "done"
    BY <1>2 DEF InTurn
  <2>1. task[u].pc = "done"
    <3>1. CASE a = t
      BY <1>0, <1>1, <3>1 DEF InTurn
    <3>2. CASE a # t
      BY <1>0, <1>2, <3>2 DEF InTurn
    <3> QED BY <3>1, <3>2
  <2>2. u # t
    BY <1>1, <2>1
  <2> QED BY <1>2, <2>1, <2>2
<1>5. ASSUME NEW u \in Tasks PROVE Careful(u)'
  <2> DEFINE p == params[u]
             k == task'[u]
             still == Good(k, p, inst'[k.target])
  <2>1. CASE p.kind = "pool"
    <3>1. ForPool(k)
      <4>1. CASE u = t
        BY <1>0, <2>1, <4>1, PoolStays DEF Careful, Forms
      <4>2. CASE u # t
        BY <1>0, <1>2, <2>1, <4>2 DEF Careful
      <4> QED BY <4>1, <4>2
    <3> QED BY <1>2, <2>1, <3>1 DEF Careful, ForPool, On
  <2>2. CASE p.kind # "pool"
    <3>1. Fits(task[u], p.kind) /\ (Alone(u) => InPlace(u))
      BY <1>0, <2>2 DEF Careful
    <3>2. Fits(k, p.kind)
      <4>1. CASE u = t
        <5>1. Acting(t)
          BY <1>0, <2>2, <3>1, <4>1 DEF Acting
        <5> QED BY <4>1, <5>1, StepStays DEF Stays
      <4>2. CASE u # t
        BY <1>2, <3>1, <4>2
      <4> QED BY <4>1, <4>2
    <3>3. Alone(u) => still
      <4> SUFFICES ASSUME Alone(u) PROVE still
        OBVIOUS
      <4>1. CASE u = t
        <5>1. Acting(t)
          BY <1>0, <2>2, <3>1, <4>1 DEF Acting
        <5> QED BY <3>1, <4>1, <5>1, StepStays DEF Stays
      <4>2. CASE u # t
        <5>1. k = task[u] /\ InPlace(u)
          BY <1>2, <3>1, <4>2
        <5>2. task[u].pc \in {"start", "done"} \/ inst' = inst
          BY <4>2, OthersRest
        <5>3. CASE inst' = inst
          BY <5>1, <5>3 DEF InPlace, Good
        <5>4. CASE task[u].pc \in {"start", "done"}
          BY <5>1, <5>4 DEF Good, Kept, Settled
        <5> QED BY <5>2, <5>3, <5>4
      <4> QED BY <4>1, <4>2
    <3>4. Careful(u)' <=> (Fits(k, p.kind) /\ (Alone(u) => still))
      BY <1>2, <2>2 DEF Careful, Fits, On, Placed, Apt, Armed, Alone, InPlace, Good, Kept, Settled, Goal, Verb
    <3> QED BY <3>2, <3>3, <3>4
  <2> QED BY <2>1, <2>2
<1> QED BY <1>3, <1>4, <1>5 DEF SInv

\* What the cloud finishes on its own is nothing a report rests on.
LEMMA SettleSInv ==
  ASSUME SInv, NEW i \in Ids, Settle(i)
  PROVE  SInv'
<1>0. Forms /\ InTurn /\ \A u \in Tasks : Careful(u)
  BY DEF SInv
<1>1. params' = params /\ task' = task
  BY DEF Settle
<1>2. Rows(inst) /\ On(inst, Ids) /\ On(inst[i], Columns) /\ ~inst[i].asked /\ EagerReboot
  BY <1>0 DEF Forms, Rows, Row
<1>3. inst[i].state \notin {"RUNNING", "STOPPED"} /\ \E s : Becomes(i, s)
  BY <1>2 DEF Settle
<1>4. PICK s : Becomes(i, s)
  BY <1>3
<1>5. inst' = Moved(i, s, FALSE)
  BY <1>4 DEF Becomes, Moved
<1>6. /\ Rows(inst') /\ \A j \in Ids \ {i} : inst'[j] = inst[j]
      /\ inst'[i].conf = inst[i].conf
  <2>1. /\ Rows(Moved(i, s, FALSE)) /\ \A j \in Ids \ {i} : Moved(i, s, FALSE)[j] = inst[j]
        /\ Moved(i, s, FALSE)[i].conf = inst[i].conf
    <3>1. ASSUME NEW b, b = FALSE
          PROVE  /\ Rows(Moved(i, s, b)) /\ \A j \in Ids \ {i} : Moved(i, s, b)[j] = inst[j]
                 /\ Moved(i, s, b)[i].conf = inst[i].conf
      BY <1>2, <3>1, MovedRows
    <3> QED BY <3>1, Zenon
  <2> QED BY <1>5, <2>1
<1>7. Forms'
  <2>1. Forms' <=> /\ params' \in [Tasks -> Param] /\ On(inst', Ids) /\ On(task', Tasks)
                   /\ (\A j \in Ids : Row(inst'[j])) /\ EagerReboot
    BY DEF Forms, On, Row
  <2> QED BY <1>0, <1>1, <1>6, <2>1 DEF Forms, Rows
<1>8. InTurn'
  BY <1>0, <1>1 DEF InTurn
<1>9. ASSUME NEW u \in Tasks PROVE Careful(u)'
  <2> DEFINE p == params[u]
             k == task[u]
             r == inst[k.target]
             q == inst'[k.target]
  <2>1. CASE p.kind = "pool"
    BY <1>0, <1>1, <2>1 DEF Careful, ForPool, On
  <2>2. CASE p.kind # "pool"
    <3>1. Fits(k, p.kind) /\ (Alone(u) => InPlace(u))
      BY <1>0, <2>2 DEF Careful
    <3>2. ASSUME Alone(u) PROVE Good(k, p, q)
      <4>1. Kept(k, p, r) /\ Settled(k, p, r)
        BY <3>1, <3>2 DEF InPlace
      <4>2. CASE k.pc \notin {"write", "await", "refind"}
        BY <4>2 DEF Good, Kept, Settled
      <4>3. CASE k.pc \in {"write", "await", "refind"}
        <5>1. k.target \in Ids
          BY <3>1, <4>3 DEF Fits, Placed
        <5>2. q.conf = r.conf /\ (r.state \in {"RUNNING", "STOPPED"} => q.state = r.state)
          BY <1>3, <1>6, <5>1
        <5>3. k.pc = "refind" => Goal(p.kind) \in {"RUNNING", "STOPPED"}
          <6>1. p \in Param
            BY <1>0 DEF Forms
          <6>2. k.pc = "refind" => p.kind \in Verbs \cup {"present"}
            BY <2>2, <3>1, <6>1 DEF Fits, Apt, Param, Verbs
          <6>3. Goal("present") = "RUNNING"
            BY DEF Goal
          <6> QED BY <1>2, <6>2, <6>3, VerbIs
        <5>4. Kept(k, p, q)
          BY <4>1, <5>2 DEF Kept
        <5>5. Settled(k, p, q)
          BY <4>1, <5>2, <5>3 DEF Settled
        <5> QED BY <5>4, <5>5 DEF Good
      <4> QED BY <4>2, <4>3
    <3>3. Careful(u)' <=> (Fits(k, p.kind) /\ (Alone(u) => Good(k, p, q)))
      BY <1>1, <2>2 DEF Careful, Fits, On, Placed, Apt, Armed, Alone, InPlace, Good, Kept, Settled, Goal, Verb
    <3> QED BY <3>1, <3>2, <3>3
  <2> QED BY <2>1, <2>2
<1> QED BY <1>7, <1>8, <1>9 DEF SInv

LEMMA SInvNext == SInv /\ [CvmNext]_cvmVars => SInv'
<1> SUFFICES ASSUME SInv, [CvmNext]_cvmVars PROVE SInv'
  OBVIOUS
<1>1. CASE UNCHANGED cvmVars
  <2>1. params' = params /\ inst' = inst /\ task' = task
    BY <1>1 DEF cvmVars
  <2>2. Forms' /\ InTurn'
    BY <2>1 DEF SInv, Forms, On, Row, InTurn
  <2>3. ASSUME NEW u \in Tasks PROVE Careful(u)'
    <3>1. Careful(u)
      BY DEF SInv
    <3> QED BY <2>1, <3>1 DEF Careful, ForPool, Fits, On, Placed, Apt, Armed, Alone, InPlace,
                              Kept, Settled, Goal, Verb
  <2> QED BY <2>2, <2>3 DEF SInv
<1> QED BY <1>1, StepSInv, SettleSInv DEF CvmNext

\* The one step that reports success, and what it rests on.
LEMMA ReportedIs ==
  ASSUME NEW t, Acting(t), Step(t), task[t].pc # "done", task[t].target # None,
         task'[t].result = "changed", InPlace(t)
  PROVE  LET r == inst'[task[t].target]
         IN  /\ task[t].target \in Ids
             /\ params[t].kind = "absent" => r.state \in {"TERMINATED", "GONE"}
             /\ params[t].kind = "present" =>
                  /\ \A f \in Fields : params[t].want[f] # None => r.conf[f] = params[t].want[f]
                  /\ r.state \in {"RUNNING", task[t].snap}
             /\ params[t].kind \in Verbs => r.state = Goal(params[t].kind)
<1> DEFINE k == task[t]
           p == params[t]
           r == inst'[k.target]
           Claim == /\ k.target \in Ids
                    /\ p.kind = "absent" => r.state \in {"TERMINATED", "GONE"}
                    /\ p.kind = "present" =>
                         /\ \A f \in Fields : p.want[f] # None => r.conf[f] = p.want[f]
                         /\ r.state \in {"RUNNING", k.snap}
                    /\ p.kind \in Verbs => r.state = Goal(p.kind)
<1>0. /\ t \in Tasks /\ On(task, Tasks) /\ On(k, Known) /\ Fits(k, p.kind)
      /\ p.kind \in Verbs \cup {"present", "absent"}
  BY ActingIs
<1>1. k.result = "none" /\ k.pc \in {"power", "delete", "write", "await", "refind"} /\ k.target \in Ids
  BY <1>0 DEF Fits, Placed
\* A call that reports is one that was accepted.
<1>2. ASSUME NEW accepted \in BOOLEAN, NEW effect, NEW l, Call(t, accepted, effect, l)
      PROVE  accepted /\ inst' = effect /\ task'[t] = l /\ l.result = "changed"
  BY <1>0, <1>1, <1>2, CallIs DEF Alike
<1>3. ASSUME NEW l, Read(t, l)
      PROVE  inst' = inst /\ l.result = "changed"
  BY <1>2, <1>3 DEF Read
<1>4. ASSUME NEW at PROVE On(At(t, at), Known) /\ At(t, at).result = "none"
  BY <1>0, <1>1, AtIs
<1>5. CASE Refind(t)
  <2>1. k.pc = "refind" /\ inst' = inst
    BY <1>3, <1>5 DEF Refind
  <2>2. p.kind # "absent"
    BY <1>0, <2>1 DEF Fits, Apt
  <2>3. Kept(k, p, r) /\ Settled(k, p, r)
    BY <2>1 DEF InPlace
  <2>4. Goal("present") = "RUNNING"
    BY DEF Goal
  <2>5. p.kind = "present" => \A f \in Fields : p.want[f] # None => r.conf[f] = p.want[f]
    BY <2>1, <2>3 DEF Kept
  <2>6. \/ r.state = Goal(p.kind)
        \/ r.state = "STOPPED" /\ k.snap = "STOPPED" /\ p.kind = "present"
    BY <2>1, <2>3 DEF Settled
  <2>7. p.kind = "present" => p.kind \notin Verbs
    BY DEF Verbs
  <2> HIDE DEF r, k, p
  <2> QED BY <1>1, <2>2, <2>4, <2>5, <2>6, <2>7 DEF r, k, p
<1>6. CASE Delete(t)
  <2>1. k.pc = "delete" /\ p.kind = "absent" /\ "absent" \notin Verbs
    BY <1>0, <1>6 DEF Delete, Fits, Apt, Verbs
  <2> DEFINE a == At(t, "await")
             w == [a EXCEPT !.goal = "GONE", !.todo = <<k.target>>]
  <2>2. w.result = "none"
    <3>1. On(a, Known) /\ a.result = "none"
      BY <1>4
    <3> HIDE DEF a
    <3> QED BY <3>1 DEF On, Known
  <2>3. Killable(k.target) \in BOOLEAN
    BY DEF Killable
  <2>4. CASE Call(t, Killable(k.target), Killed(k.target, t), w)
    BY <1>2, <2>2, <2>3, <2>4
  <2>5. CASE inst[k.target].state \in {"TERMINATED", "GONE"} /\ Read(t, EndedAs(t, "changed"))
    BY <1>1, <1>3, <2>1, <2>5
  <2> QED BY <1>6, <2>4, <2>5 DEF Delete
<1>7. CASE Power(t)
  <2> DEFINE y == Verb(p.kind)
             a == At(t, "await")
             w == [a EXCEPT !.goal = y.goal, !.todo = <<k.target>>]
  <2>1. w.result = "none"
    <3>1. On(a, Known) /\ a.result = "none"
      BY <1>4
    <3> HIDE DEF a, y
    <3> QED BY <3>1 DEF On, Known
  <2>2. PICK e : Call(t, inst[k.target].state = y.from, e, w)
    BY <1>7 DEF Power
  <2>3. (inst[k.target].state = y.from) \in BOOLEAN
    OBVIOUS
  <2> HIDE DEF w
  <2> QED BY <1>2, <2>1, <2>2, <2>3
<1>8. CASE Write(t)
  <2> DEFINE w == [k EXCEPT !.tries = 0, !.writes = Tail(@)]
             v == Written(t, w)
  <2>1. On(w, Known) /\ w.result = "none"
    BY <1>0, <1>1 DEF On, Known
  <2>2. PICK b, e : Call(t, b, e, v) /\ b \in BOOLEAN
    BY <1>8 DEF Write, Listed
  <2> HIDE DEF w
  <2>3. v.result = "none"
    BY <2>1 DEF Written, On, Known
  <2> HIDE DEF v
  <2> QED BY <1>2, <2>2, <2>3
<1>9. CASE Poll(t)
  <2>1. k.pc = "await" /\ k.todo = <<k.target>> /\ k.goal = Goal(p.kind)
    BY <1>0, <1>9 DEF Poll, Fits, Armed
  <2>2. Head(k.todo) = k.target /\ Tail(k.todo) = <<>>
    BY <2>1
  <2>3. CASE Read(t, EndedAs(t, "failed"))
    BY <1>0, <1>3, <2>3, OnEnded
  <2>4. CASE Read(t, [k EXCEPT !.tries = 0])
    <3>1. [k EXCEPT !.tries = 0].result = "none"
      BY <1>0, <1>1 DEF On, Known
    <3> QED BY <1>3, <2>4, <3>1
  <2>5. CASE inst[k.target].state = k.goal /\ Read(t, Waited(t))
    <3> DEFINE w == [k EXCEPT !.todo = Tail(@), !.tries = 0]
    <3>1. On(w, Known) /\ w.todo = <<>> /\ w.result = "none"
      BY <1>0, <1>1, <2>2 DEF On, Known
    <3>2. CASE p.kind = "absent"
      <4>1. inst' = inst /\ Goal(p.kind) = "GONE" /\ p.kind \notin Verbs
        BY <1>3, <2>5, <3>2 DEF Goal, Verbs
      <4> QED BY <1>1, <2>1, <2>5, <3>2, <4>1
    <3>3. CASE p.kind # "absent"
      <4>1. Waited(t) = [w EXCEPT !.pc = "refind"]
        BY <3>1, <3>3 DEF Waited, Acting
      <4>2. Waited(t).result = "none"
        <5> HIDE DEF w
        <5> QED BY <3>1, <4>1 DEF On, Known
      <4> QED BY <1>3, <2>5, <4>2
    <3> QED BY <3>2, <3>3
  <2> QED BY <1>9, <2>2, <2>3, <2>4, <2>5 DEF Poll
<1>10. CASE TimeOut(t)
  BY <1>0, <1>10, OnEnded DEF TimeOut, Set, On
<1>11. ~Start(t) /\ ~Page(t) /\ ~RunBatch(t) /\ ~TerminateOldest(t) /\ ~Find(t) /\ ~Create(t)
  BY <1>1 DEF Start, Page, RunBatch, TerminateOldest, Find, Create
<1> QED BY <1>5, <1>6, <1>7, <1>8, <1>9, <1>10, <1>11 DEF Step

\* Settled when reported (_start, _stop, _reboot, _delete and the waits): when
\* RebootInstances shows at once and no reboot was under way unseen, a task that
\* reports success and shared its instance with nobody leaves it where it was to
\* be, with every change it was asked for in place.
THEOREM SettledWhenReportedAlways ==
  EagerReboot /\ NobodyAsked /\ CvmSpec => SettledWhenReported
<1> DEFINE A == \A t \in Tasks :
       Alone(t) /\ Reports(t, "changed") /\ params[t].kind # "pool" /\ task[t].target # None =>
         LET now == inst'[task[t].target]
         IN  CASE params[t].kind = "absent"  -> now.state \in {"TERMINATED", "GONE"}
               [] params[t].kind = "present" ->
                    /\ \A f \in Fields : params[t].want[f] # None => now.conf[f] = params[t].want[f]
                    /\ now.state \in {"RUNNING", task[t].snap}
               [] OTHER -> now.state = Verb(params[t].kind).goal /\ ~now.asked
<1>1. ASSUME SInv, [CvmNext]_cvmVars, NEW t \in Tasks, Alone(t), Reports(t, "changed"),
             params[t].kind # "pool", task[t].target # None
      PROVE  LET now == inst'[task[t].target]
             IN  CASE params[t].kind = "absent"  -> now.state \in {"TERMINATED", "GONE"}
                   [] params[t].kind = "present" ->
                        /\ \A f \in Fields : params[t].want[f] # None => now.conf[f] = params[t].want[f]
                        /\ now.state \in {"RUNNING", task[t].snap}
                   [] OTHER -> now.state = Verb(params[t].kind).goal /\ ~now.asked
  <2> DEFINE g == params[t].kind
             now == inst'[task[t].target]
  <2>1. Acting(t) /\ InPlace(t)
    BY <1>1 DEF SInv, Careful, Acting
  <2>2. task[t].pc # "done" /\ task'[t].result = "changed" /\ task[t].result = "none"
    BY <1>1, <2>1 DEF Reports, Acting, Fits, Placed
  <2>3. \E u \in Tasks : Step(u)
    <3>1. task' # task
      BY <2>2
    <3> QED BY <1>1, <3>1 DEF CvmNext, Settle, cvmVars
  <2>4. PICK u \in Tasks : Step(u)
    BY <2>3
  <2>5. u = t
    BY <1>1, <2>2, <2>4, StepFrame DEF SInv, Frame
  <2>6. /\ task[t].target \in Ids
        /\ g = "absent" => now.state \in {"TERMINATED", "GONE"}
        /\ g = "present" =>
             /\ \A f \in Fields : params[t].want[f] # None => now.conf[f] = params[t].want[f]
             /\ now.state \in {"RUNNING", task[t].snap}
        /\ g \in Verbs => now.state = Goal(g)
    BY <1>1, <2>1, <2>2, <2>4, <2>5, ReportedIs
  <2>7. ~now.asked
    BY <1>1, <2>4, <2>6, StepFrame DEF SInv, Frame, Rows, Row
  <2>8. g \in Verbs \cup {"present", "absent"}
    BY <2>1, ActingIs
  <2>9. g \in Verbs => now.state = Verb(g).goal /\ g \notin {"present", "absent"}
    BY <2>1, <2>6, ActingIs, VerbIs DEF Verbs
  <2> HIDE DEF now, g
  <2>10. CASE g = "absent"
    BY <2>6, <2>10 DEF now, g
  <2>11. CASE g = "present"
    BY <2>6, <2>11 DEF now, g
  <2>12. CASE g \in Verbs
    BY <2>7, <2>9, <2>12 DEF now, g
  <2> QED BY <2>8, <2>10, <2>11, <2>12
<1>2. SInv /\ [CvmNext]_cvmVars => [A]_cvmVars
  BY <1>1
<1> QED BY <1>2, SInvInit, SInvNext, PTL DEF CvmSpec, SettledWhenReported

-----------------------------------------------------------------------------
(***************************************************************************)
(* Ranks: the places of ids in a list of the newest first.                 *)
(***************************************************************************)
RankIn(S, i) == Cardinality({j \in S : j >= i})

LEMMA PartsFinite ==
  ASSUME NEW N \in Nat, NEW S \in SUBSET (1 .. N)
  PROVE  /\ IsFiniteSet(S) /\ Cardinality(S) \in Nat
         /\ \A T \in SUBSET S : /\ IsFiniteSet(T) /\ Cardinality(T) \in Nat
                                /\ Cardinality(T) <= Cardinality(S)
<1>1. IsFiniteSet(1 .. N)
  BY FS_Interval
<1>2. IsFiniteSet(S)
  BY <1>1, FS_Subset
<1> QED BY <1>2, FS_Subset, FS_CardinalityType

LEMMA RankFalls ==
  ASSUME NEW N \in Nat, NEW S \in SUBSET (1 .. N), NEW i \in S, NEW j \in S, i < j
  PROVE  RankIn(S, j) < RankIn(S, i)
<1> DEFINE A == {x \in S : x >= i}
           B == {x \in S : x >= j}
<1>1. \A x \in S : x \in Nat
  OBVIOUS
<1>2. B \in SUBSET A /\ i \in A /\ i \notin B
  <2>1. \A x \in S : x >= j => x >= i
    BY <1>1
  <2>2. ~(i >= j)
    BY <1>1
  <2>3. i >= i
    BY <1>1
  <2> QED BY <2>1, <2>2, <2>3
<1>3. IsFiniteSet(A) /\ Cardinality(A) \in Nat /\ Cardinality(B) \in Nat
  <2>1. A \in SUBSET S /\ B \in SUBSET S
    OBVIOUS
  <2> QED BY <2>1, PartsFinite
<1>4. Cardinality(B) <= Cardinality(A) /\ Cardinality(B) # Cardinality(A)
  BY <1>2, <1>3, FS_Subset
<1> QED BY <1>3, <1>4 DEF RankIn

LEMMA RankRange ==
  ASSUME NEW N \in Nat, NEW S \in SUBSET (1 .. N), NEW i \in S
  PROVE  i \in Nat /\ RankIn(S, i) \in 1 .. Cardinality(S) /\ RankIn(S, i) \in Nat
<1> DEFINE A == {x \in S : x >= i}
<1>1. A \in SUBSET S /\ i \in A /\ i \in Nat
  OBVIOUS
<1>2. /\ IsFiniteSet(A) /\ Cardinality(A) \in Nat /\ Cardinality(A) <= Cardinality(S)
      /\ Cardinality(S) \in Nat
  BY <1>1, PartsFinite
<1>3. Cardinality(A) # 0
  BY <1>1, <1>2, FS_EmptySet
<1> QED BY <1>1, <1>2, <1>3 DEF RankIn

LEMMA RankTells ==
  ASSUME NEW N \in Nat, NEW S \in SUBSET (1 .. N), NEW i \in S, NEW j \in S,
         RankIn(S, i) = RankIn(S, j)
  PROVE  i = j
<1>1. i \in Nat /\ j \in Nat /\ RankIn(S, i) \in Nat
  BY RankRange
<1> QED BY <1>1, RankFalls

\* A finite set mapped one to one into as many numbers takes them all.
LEMMA TakesAll ==
  ASSUME NEW S, IsFiniteSet(S), NEW f \in [S -> 1 .. Cardinality(S)],
         \A x, y \in S : f[x] = f[y] => x = y, NEW m \in 1 .. Cardinality(S)
  PROVE  \E x \in S : f[x] = m
<1> DEFINE n == Cardinality(S)
<1>1. n \in Nat
  BY FS_CardinalityType
<1>2. IsFiniteSet(1 .. n) /\ Cardinality(1 .. n) = n
  BY <1>1, FS_Interval
<1>3. f \in Injection(S, 1 .. n)
  BY DEF Injection, IsInjective
<1>4. f \in Surjection(S, 1 .. n)
  BY <1>2, <1>3, FS_Injection
<1> QED BY <1>4 DEF Surjection

LEMMA NewestFirstIs ==
  ASSUME NEW N \in Nat, NEW S \in SUBSET (1 .. N)
  PROVE  /\ NewestFirst(S) \in Seq(S) /\ Len(NewestFirst(S)) = Cardinality(S)
         /\ \A m \in 1 .. Cardinality(S) :
              NewestFirst(S)[m] \in S /\ RankIn(S, NewestFirst(S)[m]) = m
<1>1. IsFiniteSet(S) /\ Cardinality(S) \in Nat
  BY PartsFinite
<1> DEFINE f == [i \in S |-> RankIn(S, i)]
           q == NewestFirst(S)
<1>2. f \in [S -> 1 .. Cardinality(S)] /\ \A x, y \in S : f[x] = f[y] => x = y
  BY RankRange, RankTells
<1>3. ASSUME NEW m \in 1 .. Cardinality(S) PROVE \E x \in S : RankIn(S, x) = m
  <2>1. \E x \in S : f[x] = m
    <3> HIDE DEF f
    <3> QED BY <1>1, <1>2, TakesAll
  <2> QED BY <2>1
<1>4. q = [m \in 1 .. Cardinality(S) |-> CHOOSE i \in S : RankIn(S, i) = m]
  BY DEF NewestFirst, RankIn
<1> HIDE DEF q
<1>5. ASSUME NEW m \in 1 .. Cardinality(S) PROVE q[m] \in S /\ RankIn(S, q[m]) = m
  BY <1>3, <1>4
<1>6. q \in [1 .. Cardinality(S) -> S]
  BY <1>4, <1>5
<1>7. q \in Seq(S) /\ Len(q) = Cardinality(S)
  BY <1>1, <1>6
<1> QED BY <1>5, <1>7 DEF q

\* There are no more ids than ranks.
LEMMA RankSpan ==
  ASSUME NEW N \in Nat, NEW S \in SUBSET (1 .. N), NEW Q \in SUBSET S,
         NEW lo \in Int, NEW hi \in Int, Q = {} => lo <= hi,
         \A i \in Q : lo < RankIn(S, i) /\ RankIn(S, i) <= hi
  PROVE  Cardinality(Q) <= hi - lo
<1> DEFINE f == [i \in Q |-> RankIn(S, i)]
           T == (lo + 1) .. hi
<1>1. \A i \in Q : RankIn(S, i) \in Nat
  BY RankRange
<1>2. IsFiniteSet(T) /\ Cardinality(T) = hi - lo
  <2>1. lo <= hi
    BY <1>1
  <2>2. lo + 1 \in Int /\ Cardinality(T) = IF lo + 1 > hi THEN 0 ELSE hi - (lo + 1) + 1
    BY FS_Interval
  <2>3. IsFiniteSet(T)
    BY FS_Interval
  <2> QED BY <2>1, <2>2, <2>3
<1>3. f \in [Q -> T]
  BY <1>1
<1>4. \A x, y \in Q : f[x] = f[y] => x = y
  BY RankTells
<1>5. f \in Injection(Q, T)
  <2> HIDE DEF f, T
  <2> QED BY <1>3, <1>4 DEF Injection, IsInjective
<1>6. Cardinality(Q) <= Cardinality(T)
  <2> HIDE DEF f, T
  <2> QED BY <1>2, <1>5, FS_Injection
<1> QED BY <1>2, <1>6

-----------------------------------------------------------------------------
(***************************************************************************)
(* The pool: who is younger than whom, and what a walk has seen of it.     *)
(***************************************************************************)

\* The instances that are or were members, and those the API lists.
Ever(a)   == {i \in Ids : a[i].pool /\ a[i].state # "UNBORN"}
OnList(a) == {i \in Ids : a[i].state \notin {"UNBORN", "GONE"} /\ a[i].pool}

\* The ids the API has not given yet.
Waiting(a) == {i \in Ids : a[i].state = "UNBORN"}

\* Launched after i; with i; with i and listed after it.
Later(a, i)   == {j \in Ever(a) : a[j].batch > a[i].batch}
Mates(a, i)   == {j \in Ever(a) : a[j].batch = a[i].batch}
Beside(a, i)  == {j \in Ever(a) : a[j].batch = a[i].batch /\ j < i}
Younger(a, i) == Later(a, i) \cup Beside(a, i)

\* Ids and batches are given in order, and a batch goes by its first id.
InLine(a) ==
  /\ \A i \in Ever(a) : a[i].batch \in Nat /\ a[i].batch <= i
  /\ \A i, j \in Ever(a) : i < j => a[i].batch <= a[j].batch
  /\ \A i \in Ever(a), j \in Waiting(a) : i < j

\* The entries of s that are in S, and those of them past position n.
Where(s, S)    == {m \in DOMAIN s : s[m] \in S}
After(s, n, S) == {m \in DOMAIN s : m > n /\ s[m] \in S}

\* The entries that sorted() puts after the one at n.
Behind(a, s, n) == Where(s, Later(a, s[n])) \cup After(s, n, Mates(a, s[n]))

\* What a walk that is at offset o has seen.  It never counts more instances that
\* sorted() puts after one of them than there are or were younger ones, in spite of
\* the rows it sees twice.
Tallied(a, s, o) ==
  /\ o \in Nat /\ s \in Seq(Ever(a)) /\ Len(s) <= o
  /\ \A i \in Ever(a) : Cardinality(Where(s, Later(a, i))) <= Cardinality(Later(a, i))
  /\ \A n \in DOMAIN s :
       /\ Cardinality(Behind(a, s, n)) <= Cardinality(Younger(a, s[n]))
       /\ Cardinality(Behind(a, s, n)) + RankIn(OnList(a), s[n]) <= Cardinality(Later(a, s[n])) + o

LEMMA EverIs ==
  ASSUME NEW a
  PROVE
  /\ Ever(a) \in SUBSET (1 .. MaxId) /\ OnList(a) \in SUBSET Ever(a) /\ MaxId \in Nat
  /\ OnList(a) \in SUBSET (1 .. MaxId)
  /\ \A i \in Ever(a) : i \in Nat
<1>1. MaxId \in Nat
  BY CvmAssumption
<1>2. Ever(a) \in SUBSET (1 .. MaxId) /\ OnList(a) \in SUBSET Ever(a)
  BY DEF Ever, OnList, Ids
<1> QED BY <1>1, <1>2

LEMMA EverFinite ==
  ASSUME NEW a
  PROVE
  \A S \in SUBSET Ever(a) : /\ IsFiniteSet(S) /\ Cardinality(S) \in Nat
                         /\ \A T \in SUBSET S : Cardinality(T) <= Cardinality(S)
<1>1. SUFFICES ASSUME NEW S \in SUBSET Ever(a)
               PROVE  /\ IsFiniteSet(S) /\ Cardinality(S) \in Nat
                      /\ \A T \in SUBSET S : Cardinality(T) <= Cardinality(S)
  OBVIOUS
<1>2. S \in SUBSET (1 .. MaxId) /\ MaxId \in Nat
  BY EverIs
<1> QED BY <1>2, PartsFinite

LEMMA AgesAre ==
  ASSUME NEW a, InLine(a), NEW i \in Ever(a)
  PROVE  /\ Later(a, i) \in SUBSET Ever(a) /\ Beside(a, i) \in SUBSET Ever(a) /\ Mates(a, i) \in SUBSET Ever(a)
         /\ Younger(a, i) \in SUBSET Ever(a)
         /\ Cardinality(Later(a, i)) \in Nat /\ Cardinality(Beside(a, i)) \in Nat
         /\ Cardinality(Younger(a, i)) = Cardinality(Later(a, i)) + Cardinality(Beside(a, i))
         /\ RankIn(OnList(a), i) \in Nat
<1>1. /\ Later(a, i) \in SUBSET Ever(a) /\ Beside(a, i) \in SUBSET Ever(a) /\ Mates(a, i) \in SUBSET Ever(a)
      /\ Younger(a, i) \in SUBSET Ever(a)
  BY DEF Later, Beside, Mates, Younger
<1>2. Later(a, i) \cap Beside(a, i) = {}
  BY DEF Later, Beside, InLine
<1>3. /\ IsFiniteSet(Later(a, i)) /\ IsFiniteSet(Beside(a, i))
      /\ Cardinality(Later(a, i)) \in Nat /\ Cardinality(Beside(a, i)) \in Nat
  BY <1>1, EverFinite
<1>4. Cardinality(Younger(a, i)) = Cardinality(Later(a, i)) + Cardinality(Beside(a, i)) - Cardinality({})
  BY <1>2, <1>3, FS_Union DEF Younger
<1>5. Cardinality({}) = 0
  BY FS_EmptySet
<1>6. {j \in OnList(a) : j >= i} \in SUBSET Ever(a)
  BY EverIs
<1>7. RankIn(OnList(a), i) \in Nat
  BY <1>6, EverFinite DEF RankIn
<1> QED BY <1>1, <1>3, <1>4, <1>5, <1>7

\* The places that instances younger than y have on the list.
LEMMA Placing ==
  ASSUME NEW a, InLine(a), NEW y \in Ever(a), NEW i \in OnList(a)
  PROVE  /\ i \in Later(a, y) => RankIn(OnList(a), i) <= Cardinality(Later(a, y))
         /\ i \in Later(a, y) \cup Mates(a, y) =>
              RankIn(OnList(a), i) <= RankIn(OnList(a), y) + Cardinality(Beside(a, y))
         /\ i \in Beside(a, y) => RankIn(OnList(a), y) < RankIn(OnList(a), i)
<1> DEFINE A == {j \in OnList(a) : j >= i}
           Y == {j \in OnList(a) : j >= y}
<1>1. /\ OnList(a) \in SUBSET Ever(a) /\ i \in Ever(a) /\ i \in Nat /\ y \in Nat
      /\ \A j \in OnList(a) : j \in Nat /\ j \in Ever(a)
  BY EverIs
<1>2. A \in SUBSET Ever(a) /\ Y \in SUBSET Ever(a)
  BY <1>1
<1>3. \A j \in Ever(a) : a[j].batch \in Nat
  BY DEF InLine
<1>4. ASSUME NEW j \in OnList(a), j >= i PROVE a[j].batch >= a[i].batch
  <2>1. j \in Ever(a) /\ j \in Nat /\ (j = i \/ i < j)
    BY <1>1, <1>4
  <2>2. a[i].batch <= a[j].batch
    BY <1>1, <1>3, <2>1 DEF InLine
  <2> QED BY <1>1, <1>3, <2>1, <2>2
<1>5. ASSUME i \in Later(a, y) PROVE RankIn(OnList(a), i) <= Cardinality(Later(a, y))
  <2>1. A \in SUBSET Later(a, y)
    <3>1. ASSUME NEW j \in A PROVE j \in Later(a, y)
      <4>1. j \in Ever(a) /\ a[j].batch >= a[i].batch
        BY <1>1, <1>4
      <4>2. a[i].batch > a[y].batch
        BY <1>5 DEF Later
      <4>3. a[j].batch \in Nat /\ a[i].batch \in Nat /\ a[y].batch \in Nat
        BY <1>1, <1>3, <4>1
      <4>4. a[j].batch > a[y].batch
        BY <4>1, <4>2, <4>3
      <4> QED BY <4>1, <4>4 DEF Later
    <3> QED BY <3>1
  <2> QED BY <2>1, EverFinite, AgesAre DEF RankIn
<1>6. ASSUME i \in Later(a, y) \cup Mates(a, y)
      PROVE  RankIn(OnList(a), i) <= RankIn(OnList(a), y) + Cardinality(Beside(a, y))
  <2>1. a[i].batch >= a[y].batch
    BY <1>1, <1>3, <1>6 DEF Later, Mates
  <2>2. ASSUME NEW j \in A, j < y PROVE j \in Beside(a, y)
    <3>1. j \in Ever(a) /\ a[j].batch >= a[y].batch
      BY <1>1, <1>3, <1>4, <2>1
    <3>2. a[j].batch <= a[y].batch
      BY <2>2, <3>1 DEF InLine
    <3> QED BY <1>3, <2>2, <3>1, <3>2 DEF Beside
  <2>3. A \in SUBSET (Y \cup Beside(a, y))
    <3>1. ASSUME NEW j \in A PROVE j \in Y \cup Beside(a, y)
      <4>1. j \in OnList(a) /\ j \in Nat /\ y \in Nat
        BY <1>1
      <4>2. CASE j < y
        BY <2>2, <4>2
      <4>3. CASE j >= y
        BY <4>1, <4>3
      <4> QED BY <4>1, <4>2, <4>3
    <3> QED BY <3>1
  <2>4. /\ IsFiniteSet(Y) /\ IsFiniteSet(Beside(a, y)) /\ Beside(a, y) \in SUBSET Ever(a)
        /\ Cardinality(Y) \in Nat /\ Cardinality(Beside(a, y)) \in Nat /\ Cardinality(A) \in Nat
        /\ Cardinality(Y \cap Beside(a, y)) \in Nat
    <3>1. Beside(a, y) \in SUBSET Ever(a) /\ (Y \cap Beside(a, y)) \in SUBSET Ever(a)
      BY <1>2, AgesAre
    <3> QED BY <1>2, <3>1, EverFinite
  <2>5. Cardinality(Y \cup Beside(a, y)) <= Cardinality(Y) + Cardinality(Beside(a, y))
    <3>1. Cardinality(Y \cup Beside(a, y)) =
            Cardinality(Y) + Cardinality(Beside(a, y)) - Cardinality(Y \cap Beside(a, y))
      BY <2>4, FS_Union
    <3> HIDE DEF Y
    <3> QED BY <2>4, <3>1
  <2>6. Cardinality(A) <= Cardinality(Y \cup Beside(a, y)) /\ Cardinality(Y \cup Beside(a, y)) \in Nat
    <3>1. (Y \cup Beside(a, y)) \in SUBSET Ever(a)
      BY <1>2, <2>4
    <3> QED BY <2>3, <3>1, EverFinite
  <2> QED BY <2>4, <2>5, <2>6 DEF RankIn
<1>7. ASSUME i \in Beside(a, y) PROVE RankIn(OnList(a), y) < RankIn(OnList(a), i)
  <2>1. i < y
    BY <1>7 DEF Beside
  <2>2. Y \in SUBSET A /\ i \in A /\ i \notin Y
    <3>1. \A j \in OnList(a) : j >= y => j >= i
      BY <1>1, <2>1
    <3>2. i >= i /\ ~(i >= y)
      BY <1>1, <2>1
    <3> QED BY <3>1, <3>2
  <2>3. IsFiniteSet(A) /\ Cardinality(A) \in Nat /\ Cardinality(Y) \in Nat
    BY <1>2, EverFinite
  <2>4. Cardinality(Y) <= Cardinality(A) /\ Cardinality(Y) # Cardinality(A)
    BY <2>2, <2>3, FS_Subset
  <2> QED BY <2>3, <2>4 DEF RankIn
<1> QED BY <1>5, <1>6, <1>7

-----------------------------------------------------------------------------
(* One page more.                                                          *)

\* u is s and, after it, the ids of Q, the newest first.
Extends(s, u, Q) ==
  /\ Len(s) \in Nat /\ DOMAIN s = 1 .. Len(s)
  /\ Len(u) = Len(s) + Cardinality(Q) /\ DOMAIN u = 1 .. Len(u)
  /\ \A n \in 1 .. Len(s) : u[n] = s[n]
  /\ \A n \in (Len(s) + 1) .. Len(u) : u[n] \in Q /\ RankIn(Q, u[n]) = n - Len(s)

LEMMA Extended ==
  ASSUME NEW N \in Nat, NEW Q \in SUBSET (1 .. N), NEW S, Q \subseteq S, NEW s \in Seq(S)
  PROVE  s \o NewestFirst(Q) \in Seq(S) /\ Extends(s, s \o NewestFirst(Q), Q)
<1> DEFINE q == NewestFirst(Q)
           u == s \o q
<1>1. /\ q \in Seq(Q) /\ Len(q) = Cardinality(Q) /\ Cardinality(Q) \in Nat
      /\ \A m \in 1 .. Cardinality(Q) : q[m] \in Q /\ RankIn(Q, q[m]) = m
  BY NewestFirstIs, PartsFinite
<1> HIDE DEF q
<1>2. q \in Seq(S)
  <2>1. \A m \in 1 .. Len(q) : q[m] \in S
    BY <1>1
  <2> QED BY <1>1, <2>1
<1>3. u \in Seq(S) /\ Len(u) = Len(s) + Cardinality(Q) /\ Len(s) \in Nat
  BY <1>1, <1>2
<1>4. \A n \in 1 .. Len(s) : u[n] = s[n]
  BY <1>2
<1>5. ASSUME NEW n \in (Len(s) + 1) .. Len(u)
      PROVE  u[n] \in Q /\ RankIn(Q, u[n]) = n - Len(s)
  <2>1. u[n] = q[n - Len(s)] /\ n - Len(s) \in 1 .. Cardinality(Q)
    BY <1>1, <1>2, <1>3
  <2> QED BY <1>1, <2>1
<1>6. DOMAIN u = 1 .. Len(u) /\ DOMAIN s = 1 .. Len(s)
  BY <1>3
<1> HIDE DEF u
<1>7. Extends(s, u, Q)
  BY <1>3, <1>4, <1>5, <1>6 DEF Extends
<1> QED BY <1>3, <1>7 DEF u, q

\* The new entries that are in W are no more than W has ids.
LEMMA TailCount ==
  ASSUME NEW N \in Nat, NEW Q \in SUBSET (1 .. N), NEW s, NEW u, Extends(s, u, Q),
         NEW W \in SUBSET Q, NEW T \in SUBSET ((Len(s) + 1) .. Len(u)), \A m \in T : u[m] \in W
  PROVE  /\ IsFiniteSet(T) /\ Cardinality(T) \in Nat
         /\ Cardinality(W) \in Nat /\ Cardinality(T) <= Cardinality(W)
<1> DEFINE f == [m \in T |-> u[m]]
<1>1. IsFiniteSet(W) /\ Cardinality(W) \in Nat
  BY PartsFinite
<1>2. \A m \in T : u[m] \in W /\ m \in Int /\ RankIn(Q, u[m]) = m - Len(s)
  BY DEF Extends
<1>3. f \in Injection(T, W)
  <2>1. f \in [T -> W]
    BY <1>2
  <2>2. ASSUME NEW m \in T, NEW n \in T, f[m] = f[n] PROVE m = n
    <3>1. m - Len(s) = n - Len(s) /\ Len(s) \in Nat
      BY <1>2, <2>2 DEF Extends
    <3> QED BY <1>2, <3>1
  <2> HIDE DEF f
  <2> QED BY <2>1, <2>2 DEF Injection, IsInjective
<1>4. IsFiniteSet(T) /\ Cardinality(T) <= Cardinality(W)
  <2> HIDE DEF f
  <2> QED BY <1>1, <1>3, FS_Injection
<1> QED BY <1>1, <1>4, FS_CardinalityType

\* Old entries and new ones.
LEMMA OldAndNew ==
  ASSUME NEW A, NEW B, NEW C, IsFiniteSet(A), IsFiniteSet(B), C \subseteq A \cup B
  PROVE  /\ Cardinality(A) \in Nat /\ Cardinality(B) \in Nat /\ Cardinality(C) \in Nat
         /\ Cardinality(C) <= Cardinality(A) + Cardinality(B)
<1>1. /\ IsFiniteSet(A \cup B) /\ IsFiniteSet(A \cap B)
      /\ Cardinality(A \cup B) = Cardinality(A) + Cardinality(B) - Cardinality(A \cap B)
  BY FS_Union, FS_Intersection
<1>2. IsFiniteSet(C) /\ Cardinality(C) <= Cardinality(A \cup B)
  BY <1>1, FS_Subset
<1>3. /\ Cardinality(A) \in Nat /\ Cardinality(B) \in Nat /\ Cardinality(C) \in Nat
      /\ Cardinality(A \cup B) \in Nat /\ Cardinality(A \cap B) \in Nat
  BY <1>1, <1>2, FS_CardinalityType
<1> QED BY <1>1, <1>2, <1>3

\* The rows of Q stand at r places from offset on.
OnPage(a, Q, offset, r) ==
  /\ Q \in SUBSET OnList(a) /\ r \in Nat
  /\ \A i \in Q : offset < RankIn(OnList(a), i) /\ RankIn(OnList(a), i) <= offset + r

\* If those of W stand no further than hi there are no more of them than places.
LEMMA PageSpan ==
  ASSUME NEW a, NEW Q, NEW o \in Nat, NEW r, OnPage(a, Q, o, r), NEW W \in SUBSET Q, NEW hi \in Int,
         \A i \in W : RankIn(OnList(a), i) <= hi
  PROVE  Cardinality(W) = 0 \/ Cardinality(W) <= hi - o
<1>1. W \in SUBSET OnList(a) /\ MaxId \in Nat /\ OnList(a) \in SUBSET (1 .. MaxId)
  BY EverIs DEF OnPage
<1>2. CASE W = {}
  BY <1>2, FS_EmptySet
<1>3. CASE W # {}
  <2>1. \A i \in W : o < RankIn(OnList(a), i)
    BY DEF OnPage
  <2>2. Cardinality(W) <= hi - o
    <3>1. o \in Int
      OBVIOUS
    <3> QED BY <1>1, <1>3, <2>1, <3>1, RankSpan
  <2> QED BY <2>2
<1> QED BY <1>2, <1>3

LEMMA PageTallied ==
  ASSUME NEW a, InLine(a), NEW s, NEW o, Tallied(a, s, o), NEW Q, NEW r, OnPage(a, Q, o, r)
  PROVE  Tallied(a, s \o NewestFirst(Q), o + r)
<1> DEFINE u == s \o NewestFirst(Q)
<1>1. /\ o \in Nat /\ r \in Nat /\ s \in Seq(Ever(a)) /\ Len(s) <= o /\ Len(s) \in Nat
  BY DEF Tallied, OnPage
<1>2. /\ MaxId \in Nat /\ Q \in SUBSET (1 .. MaxId) /\ Q \subseteq Ever(a)
  BY EverIs DEF OnPage
<1>3. u \in Seq(Ever(a)) /\ Extends(s, u, Q)
  BY <1>1, <1>2, Extended
<1> HIDE DEF u
<1>4. /\ DOMAIN s = 1 .. Len(s) /\ Len(u) = Len(s) + Cardinality(Q) /\ DOMAIN u = 1 .. Len(u)
      /\ \A n \in 1 .. Len(s) : u[n] = s[n]
      /\ \A n \in (Len(s) + 1) .. Len(u) : u[n] \in Q /\ RankIn(Q, u[n]) = n - Len(s)
  BY <1>3 DEF Extends
<1> DEFINE Old == 1 .. Len(s)
           New == (Len(s) + 1) .. Len(u)
<1>5. \A W \in SUBSET Q : Cardinality(W) \in Nat /\ Cardinality(W) <= r
  <2>1. \A W \in SUBSET Q : Cardinality(W) \in Nat /\ Cardinality(W) <= Cardinality(Q)
    BY <1>2, PartsFinite
  <2>2. \A i \in Q : RankIn(OnList(a), i) <= o + r
    BY DEF OnPage
  <2>3. o + r \in Int /\ Q \in SUBSET Q
    BY <1>1
  <2>4. Cardinality(Q) = 0 \/ Cardinality(Q) <= (o + r) - o
    BY <1>1, <2>2, <2>3, PageSpan
  <2>5. Cardinality(Q) \in Nat /\ Cardinality(Q) <= r
    BY <1>1, <2>1, <2>4
  <2> QED BY <1>1, <2>1, <2>5
<1>6. Len(u) \in Nat /\ o + r \in Nat /\ Len(u) <= o + r
  <2>1. Cardinality(Q) \in Nat /\ Cardinality(Q) <= r
    BY <1>5
  <2> QED BY <1>1, <1>4, <2>1
<1>7. \A n \in DOMAIN u : n \in Old \/ n \in New
  BY <1>1, <1>4, <1>6
<1>8. \A V : IsFiniteSet(Where(s, V)) /\ Cardinality(Where(s, V)) \in Nat /\ Cardinality(Where(s, V)) <= Len(s)
  <2>1. \A V : Where(s, V) \in SUBSET (1 .. Len(s))
    BY <1>4 DEF Where
  <2>2. Cardinality(1 .. Len(s)) = Len(s) /\ IsFiniteSet(1 .. Len(s))
    <3> DEFINE n == Len(s)
    <3>1. n \in Nat /\ n \in Int /\ 1 \in Int
      BY <1>1
    <3> HIDE DEF n
    <3>2. IsFiniteSet(1 .. n) /\ Cardinality(1 .. n) = IF 1 > n THEN 0 ELSE n - 1 + 1
      BY <3>1, FS_Interval
    <3>3. Cardinality(1 .. n) = n
      BY <3>1, <3>2
    <3> QED BY <3>2, <3>3 DEF n
  <2> QED BY <2>1, <2>2, FS_Subset, FS_CardinalityType
\* The entries of the batches after y.
<1>9. ASSUME NEW y \in Ever(a)
      PROVE  Cardinality(Where(s, Later(a, y))) + Cardinality(Q \cap Later(a, y)) <= Cardinality(Later(a, y))
  <2> DEFINE W == Q \cap Later(a, y)
  <2>1. W \in SUBSET Q /\ \A i \in W : RankIn(OnList(a), i) <= Cardinality(Later(a, y))
    BY Placing DEF OnPage
  <2>2. Cardinality(Later(a, y)) \in Nat
    BY AgesAre
  <2> HIDE DEF W
  <2>3. Cardinality(W) = 0 \/ Cardinality(W) <= Cardinality(Later(a, y)) - o
    <3> DEFINE hi == Cardinality(Later(a, y))
    <3>1. hi \in Int /\ o \in Nat /\ \A i \in W : RankIn(OnList(a), i) <= hi
      BY <1>1, <2>1, <2>2
    <3> HIDE DEF hi
    <3>2. Cardinality(W) = 0 \/ Cardinality(W) <= hi - o
      BY <2>1, <3>1, PageSpan
    <3> QED BY <3>2 DEF hi
  <2>4. Cardinality(Where(s, Later(a, y))) <= Cardinality(Later(a, y))
    BY DEF Tallied
  <2>5. /\ Cardinality(Where(s, Later(a, y))) \in Nat /\ Cardinality(Where(s, Later(a, y))) <= Len(s)
        /\ Cardinality(W) \in Nat
    BY <1>5, <1>8, <2>1
  <2>6. Cardinality(Where(s, Later(a, y))) + Cardinality(W) <= Cardinality(Later(a, y))
    BY <1>1, <2>2, <2>3, <2>4, <2>5
  <2> QED BY <2>6 DEF W
<1>10. ASSUME NEW y \in Ever(a)
       PROVE  Cardinality(Where(u, Later(a, y))) <= Cardinality(Later(a, y))
  <2> DEFINE T == {m \in New : u[m] \in Later(a, y)}
             W == Q \cap Later(a, y)
  <2>1. Where(u, Later(a, y)) \subseteq Where(s, Later(a, y)) \cup T
    BY <1>4, <1>7 DEF Where
  <2>2. W \in SUBSET Q /\ T \in SUBSET New /\ \A m \in T : u[m] \in W
    BY <1>4
  <2>3. Cardinality(Where(s, Later(a, y))) + Cardinality(W) <= Cardinality(Later(a, y))
    BY <1>9
  <2> HIDE DEF T, W
  <2>4. /\ IsFiniteSet(T) /\ Cardinality(T) \in Nat
        /\ Cardinality(W) \in Nat /\ Cardinality(T) <= Cardinality(W)
    BY <1>2, <1>3, <2>2, TailCount
  <2>5. IsFiniteSet(Where(s, Later(a, y))) /\ Cardinality(Where(s, Later(a, y))) \in Nat
    BY <1>8
  <2>6. /\ Cardinality(Where(u, Later(a, y))) \in Nat
        /\ Cardinality(Where(u, Later(a, y))) <= Cardinality(Where(s, Later(a, y))) + Cardinality(T)
    BY <2>1, <2>4, <2>5, OldAndNew
  <2>7. Cardinality(Later(a, y)) \in Nat
    BY AgesAre
  <2> QED BY <2>3, <2>4, <2>5, <2>6, <2>7
<1>11. ASSUME NEW n \in Old
       PROVE  /\ Cardinality(Behind(a, u, n)) <= Cardinality(Younger(a, u[n]))
              /\ Cardinality(Behind(a, u, n)) + RankIn(OnList(a), u[n]) <= Cardinality(Later(a, u[n])) + (o + r)
  <2> DEFINE y == s[n]
             V == Later(a, y) \cup Mates(a, y)
             W == Q \cap V
             T == {m \in New : u[m] \in V}
  <2>1. y \in Ever(a) /\ u[n] = y /\ n \in DOMAIN s
    BY <1>1, <1>4
  <2>2. Behind(a, u, n) \subseteq Behind(a, s, n) \cup T
    <3>1. ASSUME NEW m \in Behind(a, u, n) PROVE m \in Behind(a, s, n) \cup T
      <4>1. m \in DOMAIN u /\ u[m] \in V /\ (u[m] \in Later(a, y) \/ (m > n /\ u[m] \in Mates(a, y)))
        BY <2>1 DEF Behind, Where, After
      <4>2. CASE m \in New
        BY <4>1, <4>2
      <4>3. CASE m \in Old
        BY <1>4, <4>1, <4>3 DEF Behind, Where, After
      <4> QED BY <1>7, <4>1, <4>2, <4>3
    <3> QED BY <3>1
  <2>3. W \in SUBSET Q /\ T \in SUBSET New /\ \A m \in T : u[m] \in W
    BY <1>4
  <2>4. \A i \in W : RankIn(OnList(a), i) <= RankIn(OnList(a), y) + Cardinality(Beside(a, y))
    <3> HIDE DEF y
    <3> QED BY <2>1, Placing DEF OnPage
  <2>5. IsFiniteSet(Behind(a, s, n)) /\ Cardinality(Behind(a, s, n)) \in Nat
    <3>1. Behind(a, s, n) \in SUBSET Where(s, V)
      BY DEF Behind, Where, After
    <3> HIDE DEF V
    <3> QED BY <1>8, <3>1, FS_Subset, FS_CardinalityType
  <2>6. /\ Cardinality(Behind(a, s, n)) <= Cardinality(Younger(a, y))
        /\ Cardinality(Behind(a, s, n)) + RankIn(OnList(a), y) <= Cardinality(Later(a, y)) + o
    BY <2>1 DEF Tallied
  <2> HIDE DEF y, W, T
  <2>7. /\ IsFiniteSet(T) /\ Cardinality(T) \in Nat /\ Cardinality(T) <= Cardinality(W)
        /\ Cardinality(W) \in Nat /\ Cardinality(W) <= r
    <3>1. Cardinality(W) \in Nat /\ Cardinality(W) <= r
      BY <1>5, <2>3
    <3> QED BY <1>2, <1>3, <2>3, <3>1, TailCount
  <2>8. /\ Cardinality(Behind(a, u, n)) \in Nat
        /\ Cardinality(Behind(a, u, n)) <= Cardinality(Behind(a, s, n)) + Cardinality(T)
    BY <2>2, <2>5, <2>7, OldAndNew
  <2>9. /\ Cardinality(Later(a, y)) \in Nat /\ Cardinality(Beside(a, y)) \in Nat
        /\ Cardinality(Younger(a, y)) = Cardinality(Later(a, y)) + Cardinality(Beside(a, y))
        /\ RankIn(OnList(a), y) \in Nat
    BY <2>1, AgesAre
  <2>10. Cardinality(W) = 0 \/ Cardinality(W) <= RankIn(OnList(a), y) + Cardinality(Beside(a, y)) - o
    <3> DEFINE hi == RankIn(OnList(a), y) + Cardinality(Beside(a, y))
    <3>1. hi \in Int /\ o \in Nat /\ \A i \in W : RankIn(OnList(a), i) <= hi
      BY <1>1, <2>4, <2>9
    <3> HIDE DEF hi
    <3>2. Cardinality(W) = 0 \/ Cardinality(W) <= hi - o
      BY <2>3, <3>1, PageSpan
    <3>3. hi = RankIn(OnList(a), y) + Cardinality(Beside(a, y))
      BY DEF hi
    <3> QED BY <1>1, <2>9, <3>1, <3>2, <3>3
  <2>11. Cardinality(Behind(a, u, n)) <= Cardinality(Younger(a, y))
    BY <1>1, <2>5, <2>6, <2>7, <2>8, <2>9, <2>10
  <2>12. Cardinality(Behind(a, u, n)) + RankIn(OnList(a), y) <= Cardinality(Later(a, y)) + (o + r)
    BY <1>1, <2>5, <2>6, <2>7, <2>8, <2>9
  <2> QED BY <2>1, <2>11, <2>12
<1>12. ASSUME NEW n \in New
       PROVE  /\ Cardinality(Behind(a, u, n)) <= Cardinality(Younger(a, u[n]))
              /\ Cardinality(Behind(a, u, n)) + RankIn(OnList(a), u[n]) <= Cardinality(Later(a, u[n])) + (o + r)
  <2> DEFINE y == u[n]
             F == {m \in New : u[m] \in Later(a, y)}
             T == {m \in New : m > n /\ u[m] \in Mates(a, y)}
             V == Q \cap Later(a, y)
             W == Q \cap Beside(a, y)
  <2>1. y \in Ever(a) /\ y \in OnList(a) /\ y \in Q /\ y \in Nat /\ RankIn(Q, y) = n - Len(s)
    BY <1>2, <1>4, EverIs DEF OnPage
  <2>2. Behind(a, u, n) \subseteq (Where(s, Later(a, y)) \cup F) \cup T
    <3>1. ASSUME NEW m \in Behind(a, u, n) PROVE m \in (Where(s, Later(a, y)) \cup F) \cup T
      <4>1. m \in DOMAIN u /\ (u[m] \in Later(a, y) \/ (m > n /\ u[m] \in Mates(a, y)))
        BY DEF Behind, Where, After
      <4>2. CASE m \in New
        BY <4>1, <4>2
      <4>3. CASE m \in Old
        <5>1. u[m] \in Later(a, y)
          BY <1>1, <4>1, <4>3
        <5> QED BY <1>4, <4>1, <4>3, <5>1 DEF Where
      <4> QED BY <1>7, <4>1, <4>2, <4>3
    <3> QED BY <3>1
  <2>3. /\ V \in SUBSET Q /\ F \in SUBSET New /\ \A m \in F : u[m] \in V
        /\ W \in SUBSET Q /\ T \in SUBSET New
    BY <1>4
  <2>4. ASSUME NEW m \in T PROVE u[m] \in W
    <3>1. m \in New /\ m > n /\ u[m] \in Mates(a, y) /\ u[m] \in Q /\ RankIn(Q, u[m]) = m - Len(s)
      BY <1>4
    <3>2. m \in Int /\ n \in Int /\ u[m] \in Nat
      <4>1. Len(s) \in Nat /\ Len(u) \in Nat
        BY <1>1, <1>6
      <4>2. m \in Int /\ n \in Int
        BY <3>1, <4>1
      <4>3. \A x \in Q : x \in Nat
        BY <1>2
      <4> QED BY <3>1, <4>2, <4>3
    <3> DEFINE x == u[m]
    <3>3. /\ x \in Q /\ x \in Nat /\ RankIn(Q, x) = m - Len(s) /\ x \in Mates(a, y)
      BY <3>1, <3>2
    <3> HIDE DEF x, y
    <3>4. ~(RankIn(Q, x) < RankIn(Q, y)) /\ RankIn(Q, x) # RankIn(Q, y)
      BY <1>1, <2>1, <3>1, <3>2, <3>3
    <3>5. ~(y < x) /\ y # x
      BY <1>2, <2>1, <3>3, <3>4, RankFalls
    <3>6. x \in Beside(a, y)
      BY <2>1, <3>3, <3>5 DEF Mates, Beside
    <3> QED BY <3>1, <3>6 DEF x
  <2>5. V = Q \cap Later(a, y) /\ W = Q \cap Beside(a, y)
    OBVIOUS
  <2>6. Cardinality(Where(s, Later(a, y))) + Cardinality(V) <= Cardinality(Later(a, y))
    BY <1>9, <2>1
  <2>7. \A i \in W : RankIn(OnList(a), y) < RankIn(OnList(a), i) /\ RankIn(OnList(a), i) <= o + r
    <3> HIDE DEF y
    <3> QED BY <2>1, Placing DEF OnPage
  <2>8. RankIn(OnList(a), y) <= o + r
    <3> HIDE DEF y
    <3> QED BY <2>1 DEF OnPage
  <2> HIDE DEF y, F, T, V, W
  <2>9. /\ IsFiniteSet(F) /\ Cardinality(F) \in Nat /\ Cardinality(F) <= Cardinality(V)
        /\ Cardinality(V) \in Nat
    BY <1>2, <1>3, <2>3, TailCount
  <2>10. /\ IsFiniteSet(T) /\ Cardinality(T) \in Nat /\ Cardinality(T) <= Cardinality(W)
         /\ Cardinality(W) \in Nat
    BY <1>2, <1>3, <2>3, <2>4, TailCount
  <2>11. IsFiniteSet(Where(s, Later(a, y))) /\ Cardinality(Where(s, Later(a, y))) \in Nat
    BY <1>8
  <2>12. /\ IsFiniteSet(Where(s, Later(a, y)) \cup F) /\ Cardinality(Where(s, Later(a, y)) \cup F) \in Nat
         /\ Cardinality(Where(s, Later(a, y)) \cup F) <= Cardinality(Where(s, Later(a, y))) + Cardinality(F)
    <3>1. IsFiniteSet(Where(s, Later(a, y)) \cup F)
      BY <2>9, <2>11, FS_Union
    <3> QED BY <2>9, <2>11, <3>1, OldAndNew
  <2>13. /\ Cardinality(Behind(a, u, n)) \in Nat
         /\ Cardinality(Behind(a, u, n)) <= Cardinality(Where(s, Later(a, y)) \cup F) + Cardinality(T)
    BY <2>2, <2>10, <2>12, OldAndNew
  <2>14. /\ Cardinality(Later(a, y)) \in Nat /\ Cardinality(Beside(a, y)) \in Nat
         /\ Cardinality(Younger(a, y)) = Cardinality(Later(a, y)) + Cardinality(Beside(a, y))
         /\ RankIn(OnList(a), y) \in Nat
    BY <2>1, AgesAre
  <2>15. Cardinality(W) <= Cardinality(Beside(a, y))
    <3>1. Beside(a, y) \in SUBSET Ever(a) /\ W \in SUBSET Beside(a, y)
      BY <2>1, <2>5, AgesAre
    <3> QED BY <3>1, EverFinite
  \* Those of its batch after it stand past it on the page.
  <2>16. Cardinality(W) <= (o + r) - RankIn(OnList(a), y)
    <3>1. OnList(a) \in SUBSET (1 .. MaxId) /\ W \in SUBSET OnList(a)
      BY <2>3, EverIs DEF OnPage
    <3>2. o + r \in Int /\ RankIn(OnList(a), y) \in Int
      BY <1>1, <2>14
    <3> QED BY <1>2, <2>7, <2>8, <3>1, <3>2, RankSpan
  <2>17. Cardinality(Behind(a, u, n)) <= Cardinality(Younger(a, y))
    BY <2>6, <2>9, <2>10, <2>11, <2>12, <2>13, <2>14, <2>15
  <2>18. Cardinality(Behind(a, u, n)) + RankIn(OnList(a), y) <= Cardinality(Later(a, y)) + (o + r)
    <3>1. Cardinality(Behind(a, u, n)) <= Cardinality(Later(a, y)) + Cardinality(W)
      BY <2>6, <2>9, <2>10, <2>11, <2>12, <2>13, <2>14
    <3>2. Cardinality(W) + RankIn(OnList(a), y) <= o + r
      BY <1>1, <2>10, <2>14, <2>16
    <3> DEFINE b == Cardinality(Behind(a, u, n))
               w == Cardinality(W)
               l == Cardinality(Later(a, y))
               k == RankIn(OnList(a), y)
    <3>3. b \in Int /\ w \in Int /\ l \in Int /\ k \in Int /\ o + r \in Int
      BY <1>1, <2>10, <2>13, <2>14
    <3>4. b <= l + w /\ w + k <= o + r
      BY <3>1, <3>2
    <3> HIDE DEF b, w, l, k
    <3>5. b + k <= l + (o + r)
      BY <1>1, <3>3, <3>4
    <3> QED BY <3>5 DEF b, w, l, k
  <2> QED BY <2>17, <2>18 DEF y
<1>13. \A n \in DOMAIN u :
         /\ Cardinality(Behind(a, u, n)) <= Cardinality(Younger(a, u[n]))
         /\ Cardinality(Behind(a, u, n)) + RankIn(OnList(a), u[n]) <= Cardinality(Later(a, u[n])) + (o + r)
  BY <1>7, <1>11, <1>12
<1>14. Tallied(a, u, o + r)
  BY <1>3, <1>6, <1>10, <1>13 DEF Tallied
<1> QED BY <1>14 DEF u

-----------------------------------------------------------------------------
(* The next page of the walk, and what the task makes of all of them.      *)

\* The rows of a page stand next on the list.
LEMMA PageRows ==
  ASSUME NEW o \in Nat
  PROVE  OnPage(inst, ToSet(PageAt(o)) \cap Pool, o, Len(PageAt(o)))
<1> DEFINE S == OnList(inst)
           L == Listing
           rest == Len(L) - o
           w == IF rest < Limit THEN rest ELSE Limit
<1>1. S \in SUBSET (1 .. MaxId) /\ MaxId \in Nat /\ Limit \in Nat
  BY EverIs, CvmAssumption
<1>2. L = NewestFirst(S)
  BY DEF Listing, OnList, Listed
<1>3. /\ L \in Seq(S) /\ Len(L) = Cardinality(S)
      /\ \A m \in 1 .. Cardinality(S) : L[m] \in S /\ RankIn(S, L[m]) = m
  BY <1>1, <1>2, NewestFirstIs
<1>4. PageAt(o) = IF rest <= 0 THEN <<>> ELSE SubSeq(L, o + 1, o + w)
  BY DEF PageAt
<1> HIDE DEF S, L, w
<1>5. Len(L) \in Nat /\ \A m \in 1 .. Len(L) : L[m] \in S /\ RankIn(S, L[m]) = m
  BY <1>3
<1>6. CASE rest <= 0
  BY <1>4, <1>6 DEF OnPage, ToSet
<1>7. CASE ~(rest <= 0)
  <2> DEFINE g == PageAt(o)
  <2>1. g = SubSeq(L, o + 1, o + w)
    BY <1>4, <1>7
  <2>2. w \in Nat /\ o + w <= Len(L)
    BY <1>1, <1>5, <1>7 DEF w
  <2>3. Len(g) = w /\ DOMAIN g = 1 .. w /\ \A m \in 1 .. w : g[m] = L[o + m]
    BY <1>3, <1>5, <2>1, <2>2
  <2> HIDE DEF g
  <2>4. ASSUME NEW i \in ToSet(g)
        PROVE  i \in S /\ o < RankIn(S, i) /\ RankIn(S, i) <= o + w
    <3>1. PICK m \in 1 .. w : i = g[m]
      BY <2>3 DEF ToSet
    <3>2. o + m \in 1 .. Len(L) /\ o < o + m /\ o + m <= o + w
      BY <1>5, <2>2
    <3> QED BY <1>5, <2>3, <3>1, <3>2
  <2>5. OnPage(inst, ToSet(g) \cap Pool, o, Len(g))
    BY <2>2, <2>3, <2>4 DEF OnPage, S
  <2> QED BY <2>5 DEF g
<1> QED BY <1>6, <1>7

\* The places up to n in the order of ages.
UpTo(s, n) == {m \in DOMAIN s : \/ inst[s[m]].batch < inst[s[n]].batch
                                \/ inst[s[m]].batch = inst[s[n]].batch /\ m <= n}

\* Each entry is as far up in ByAge as there are places up to its own.
LEMMA ByAgeRanks ==
  ASSUME NEW S, \A i \in S : inst[i].batch \in Nat, NEW s \in Seq(S)
  PROVE  /\ ByAge(s) \in Seq(S) /\ Len(ByAge(s)) = Len(s) /\ DOMAIN s = 1 .. Len(s) /\ Len(s) \in Nat
         /\ \A n \in DOMAIN s : /\ UpTo(s, n) \in SUBSET DOMAIN s /\ n \in UpTo(s, n)
                                /\ IsFiniteSet(UpTo(s, n))
                                /\ Cardinality(UpTo(s, n)) \in 1 .. Len(s)
                                /\ ByAge(s)[Cardinality(UpTo(s, n))] = s[n]
         /\ \A k \in 1 .. Len(s) :
              \E n \in DOMAIN s : ByAge(s)[k] = s[n] /\ Cardinality(UpTo(s, n)) = k
<1> DEFINE D == DOMAIN s
           N == Len(s)
           b(m) == inst[s[m]].batch
<1>1. D = 1 .. N /\ N \in Nat /\ \A m \in D : s[m] \in S /\ b(m) \in Nat /\ m \in Nat
  OBVIOUS
<1>2. D \in SUBSET (1 .. N) /\ Cardinality(D) = N /\ IsFiniteSet(D)
  <2>1. IsFiniteSet(1 .. N) /\ Cardinality(1 .. N) = IF 1 > N THEN 0 ELSE N - 1 + 1
    <3> HIDE DEF N
    <3>1. N \in Int /\ 1 \in Int
      BY <1>1
    <3> QED BY <3>1, FS_Interval
  <2> QED BY <1>1, <2>1
<1> HIDE DEF D, N
<1>3. ASSUME NEW n \in D PROVE UpTo(s, n) \in SUBSET D /\ n \in UpTo(s, n)
  BY <1>1 DEF UpTo, D
<1>4. \A n \in D : IsFiniteSet(UpTo(s, n)) /\ Cardinality(UpTo(s, n)) \in 1 .. N
  <2> SUFFICES ASSUME NEW n \in D
               PROVE  IsFiniteSet(UpTo(s, n)) /\ Cardinality(UpTo(s, n)) \in 1 .. N
    OBVIOUS
  <2> DEFINE U == UpTo(s, n)
  <2>1. U \in SUBSET D /\ n \in U
    BY <1>3
  <2> HIDE DEF U
  <2>2. IsFiniteSet(U) /\ Cardinality(U) \in Nat /\ Cardinality(U) <= N
    BY <1>1, <1>2, <2>1, PartsFinite
  <2>3. Cardinality(U) # 0
    BY <2>1, <2>2, FS_EmptySet
  <2>4. Cardinality(U) \in 1 .. N
    BY <1>1, <2>2, <2>3
  <2> QED BY <2>2, <2>4 DEF U
<1>5. ASSUME NEW m \in D, NEW n \in D, Cardinality(UpTo(s, m)) = Cardinality(UpTo(s, n))
      PROVE  m = n
  <2>1. UpTo(s, m) \in SUBSET UpTo(s, n) \/ UpTo(s, n) \in SUBSET UpTo(s, m)
    <3>1. \A x \in D : b(x) \in Nat /\ x \in Nat
      BY <1>1
    <3>2. \A x \in D : /\ x \in UpTo(s, n) <=> (b(x) < b(n) \/ (b(x) = b(n) /\ x <= n))
                       /\ x \in UpTo(s, m) <=> (b(x) < b(m) \/ (b(x) = b(m) /\ x <= m))
      BY DEF UpTo, D
    <3>3. UpTo(s, m) \in SUBSET D /\ UpTo(s, n) \in SUBSET D
      BY <1>3
    <3> HIDE DEF b
    <3>4. CASE b(m) < b(n) \/ (b(m) = b(n) /\ m <= n)
      BY <3>1, <3>2, <3>3, <3>4
    <3>5. CASE b(n) < b(m) \/ (b(m) = b(n) /\ n <= m)
      BY <3>1, <3>2, <3>3, <3>5
    <3> QED BY <3>1, <3>4, <3>5
  <2>2. UpTo(s, m) = UpTo(s, n)
    BY <1>4, <1>5, <2>1, FS_Subset
  <2>3. m \in UpTo(s, n) /\ n \in UpTo(s, m)
    BY <1>3, <2>2
  <2>4. /\ b(m) < b(n) \/ (b(m) = b(n) /\ m <= n)
        /\ b(n) < b(m) \/ (b(m) = b(n) /\ n <= m)
    BY <2>3 DEF UpTo
  <2>5. b(m) \in Nat /\ b(n) \in Nat /\ m \in Nat /\ n \in Nat
    BY <1>1
  <2> HIDE DEF b
  <2> QED BY <2>4, <2>5
<1>6. ASSUME NEW k \in 1 .. N PROVE \E n \in D : Cardinality(UpTo(s, n)) = k
  <2> DEFINE f == [n \in D |-> Cardinality(UpTo(s, n))]
  <2>1. f \in [D -> 1 .. Cardinality(D)] /\ \A x, y \in D : f[x] = f[y] => x = y
    BY <1>2, <1>4, <1>5
  <2>2. \E n \in D : f[n] = k
    <3> HIDE DEF f
    <3> QED BY <1>2, <2>1, TakesAll
  <2> QED BY <2>2
<1>7. ByAge(s) = [k \in D |-> s[CHOOSE n \in D : Cardinality(UpTo(s, n)) = k]]
  BY DEF ByAge, UpTo, D
<1>8. ASSUME NEW k \in 1 .. N
      PROVE  \E n \in D : ByAge(s)[k] = s[n] /\ Cardinality(UpTo(s, n)) = k
  <2> DEFINE n == CHOOSE n \in D : Cardinality(UpTo(s, n)) = k
  <2>1. n \in D /\ Cardinality(UpTo(s, n)) = k
    BY <1>6
  <2>2. ByAge(s)[k] = s[n]
    BY <1>1, <1>7
  <2> HIDE DEF n
  <2> QED BY <2>1, <2>2
<1>9. ASSUME NEW n \in D PROVE ByAge(s)[Cardinality(UpTo(s, n))] = s[n]
  <2>1. PICK m \in D : /\ ByAge(s)[Cardinality(UpTo(s, n))] = s[m]
                       /\ Cardinality(UpTo(s, m)) = Cardinality(UpTo(s, n))
    BY <1>4, <1>8
  <2> QED BY <1>5, <2>1
<1>10. ByAge(s) \in [1 .. N -> S]
  <2>1. \A k \in 1 .. N : ByAge(s)[k] \in S
    BY <1>1, <1>8
  <2> QED BY <1>1, <1>7, <2>1
<1>11. ByAge(s) \in Seq(S) /\ Len(ByAge(s)) = N
  BY <1>1, <1>10
<1> QED BY <1>1, <1>3, <1>4, <1>8, <1>9, <1>11 DEF D, N

LEMMA ByAgeIs ==
  ASSUME InLine(inst), NEW s \in Seq(Ever(inst))
  PROVE  /\ ByAge(s) \in Seq(Ever(inst)) /\ Len(ByAge(s)) = Len(s)
         /\ \A k \in 1 .. Len(s) :
              \E n \in DOMAIN s : /\ ByAge(s)[k] = s[n]
                                  /\ Cardinality(Behind(inst, s, n)) = Len(s) - k
<1> DEFINE D == DOMAIN s
           N == Len(s)
           b(m) == inst[s[m]].batch
<1>1. /\ ByAge(s) \in Seq(Ever(inst)) /\ Len(ByAge(s)) = N /\ D = 1 .. N /\ N \in Nat
      /\ \A n \in D : UpTo(s, n) \in SUBSET D
      /\ \A k \in 1 .. N : \E n \in D : ByAge(s)[k] = s[n] /\ Cardinality(UpTo(s, n)) = k
  BY ByAgeRanks DEF InLine
<1>2. \A m \in D : s[m] \in Ever(inst) /\ b(m) \in Nat /\ m \in Nat
  BY DEF InLine
<1>3. IsFiniteSet(D) /\ Cardinality(D) = N
  <2>1. IsFiniteSet(1 .. N) /\ Cardinality(1 .. N) = IF 1 > N THEN 0 ELSE N - 1 + 1
    <3> HIDE DEF N
    <3>1. N \in Int /\ 1 \in Int
      BY <1>1
    <3> QED BY <3>1, FS_Interval
  <2> QED BY <1>1, <2>1
<1> HIDE DEF D, N
\* The places after n are the ones that are not up to n.
<1>4. ASSUME NEW n \in D PROVE Cardinality(Behind(inst, s, n)) = N - Cardinality(UpTo(s, n))
  <2> DEFINE U == UpTo(s, n)
  <2>1. ASSUME NEW m \in D PROVE m \in Behind(inst, s, n) <=> m \notin UpTo(s, n)
    <3>1. m \in Behind(inst, s, n) <=> (b(m) > b(n) \/ (m > n /\ b(m) = b(n)))
      BY <1>2 DEF Behind, Where, After, Later, Mates, D
    <3>2. m \in UpTo(s, n) <=> (b(m) < b(n) \/ (b(m) = b(n) /\ m <= n))
      BY DEF UpTo, D
    <3>3. b(m) \in Nat /\ b(n) \in Nat /\ m \in Nat /\ n \in Nat
      BY <1>2
    <3> HIDE DEF b
    <3> QED BY <3>1, <3>2, <3>3
  <2>2. Behind(inst, s, n) \in SUBSET D
    BY DEF Behind, Where, After, D
  <2>3. U \in SUBSET D /\ Behind(inst, s, n) = D \ U
    BY <1>1, <2>1, <2>2
  <2> HIDE DEF U
  <2>4. Cardinality(D \ U) = Cardinality(D) - Cardinality(D \cap U) /\ D \cap U = U
    BY <1>3, <2>3, FS_Difference
  <2>5. Cardinality(D \ U) = N - Cardinality(U)
    BY <1>3, <2>4
  <2> QED BY <2>3, <2>5 DEF U
<1>5. ASSUME NEW k \in 1 .. N
      PROVE  \E n \in D : ByAge(s)[k] = s[n] /\ Cardinality(Behind(inst, s, n)) = N - k
  <2>1. PICK n \in D : ByAge(s)[k] = s[n] /\ Cardinality(UpTo(s, n)) = k
    BY <1>1
  <2>2. Cardinality(Behind(inst, s, n)) = N - k
    BY <1>4, <2>1
  <2> QED BY <2>1, <2>2
<1> QED BY <1>1, <1>5 DEF D, N

-----------------------------------------------------------------------------
(* What a task for the pool goes by.                                       *)

\* It launches no empty batch and terminates no instance without as many younger
\* ones as it is asked for.
Marked(a, k, p) ==
  /\ k.batches \in Seq(Nat) /\ k.doomed \in Seq(Ever(a))
  /\ k.pc = "run" => k.batches # <<>>
  /\ k.pc = "terminate" => k.doomed # <<>>
  /\ \A n \in DOMAIN k.doomed : p.count <= Cardinality(Younger(a, k.doomed[n]))

Sized(a, k, p) == ForPool(k) /\ Tallied(a, k.seen, k.offset) /\ Marked(a, k, p)

\* l goes by what k goes by, and is where k is or has nothing to do but wait.
AsSized(k, l) ==
  /\ l.seen = k.seen /\ l.offset = k.offset /\ l.batches = k.batches /\ l.doomed = k.doomed
  /\ l.pc \in {k.pc, "count", "recount", "await", "done"} \cap PoolPlaces

LEMMA StaysSized ==
  ASSUME NEW a, NEW k, NEW p, Sized(a, k, p), NEW l, On(l, Known), AsSized(k, l)
  PROVE  Sized(a, l, p)
<1>1. ForPool(l)
  BY DEF ForPool, AsSized
<1>2. Tallied(a, l.seen, l.offset)
  BY DEF Sized, AsSized
<1>3. Marked(a, l, p)
  BY DEF Sized, Marked, AsSized
<1> QED BY <1>1, <1>2, <1>3 DEF Sized

\* A walk that has not begun.
LEMMA NothingSeen ==
  ASSUME NEW a, InLine(a)
  PROVE  Tallied(a, <<>>, 0)
<1>1. ASSUME NEW i \in Ever(a)
      PROVE  Cardinality(Where(<<>>, Later(a, i))) <= Cardinality(Later(a, i))
  <2>1. Where(<<>>, Later(a, i)) = {}
    BY DEF Where
  <2>2. Cardinality(Later(a, i)) \in Nat
    BY AgesAre
  <2> QED BY <2>1, <2>2, FS_EmptySet
<1> QED BY <1>1 DEF Tallied

\* A positive number of instances is spread over the zones with no empty batch left.
LEMMA BatchesAre ==
  ASSUME NEW total \in Nat \ {0}, NEW zones \in Nat
  PROVE  LET counts == IF zones = 0 THEN <<total>> ELSE SpreadCounts(total, zones)
         IN  NonZero(counts) \in Seq(Nat) /\ NonZero(counts) # <<>>
<1> DEFINE counts == IF zones = 0 THEN <<total>> ELSE SpreadCounts(total, zones)
           Z == {z \in DOMAIN counts : counts[z] > 0}
<1>1. counts \in Seq(Nat) /\ counts # <<>> /\ counts[1] > 0
  <2>1. CASE zones = 0
    BY <2>1
  <2>2. CASE zones # 0
    <3>1. total \div zones \in Nat /\ total % zones \in Nat
      BY <2>2
    <3>2. total \div zones > 0 \/ total % zones > 0
      BY <2>2
    <3> DEFINE d == total \div zones
               r == total % zones
    <3>3. counts = [z \in 1 .. zones |-> d + IF z <= r THEN 1 ELSE 0]
      BY <2>2 DEF SpreadCounts
    <3> HIDE DEF d, r, counts
    <3>4. \A z \in 1 .. zones : counts[z] \in Nat
      BY <3>1, <3>3 DEF d, r
    <3>5. counts[1] > 0
      BY <2>2, <3>1, <3>2, <3>3 DEF d, r
    <3>6. counts \in [1 .. zones -> Nat]
      BY <3>3, <3>4
    <3> QED BY <2>2, <3>5, <3>6
  <2> QED BY <2>1, <2>2
<1> HIDE DEF counts
<1>2. Len(counts) \in Nat /\ DOMAIN counts = 1 .. Len(counts) /\ 1 \in Z
  BY <1>1
<1>3. Cardinality(Z) \in 1 .. Len(counts)
  <2>1. Z \in SUBSET (1 .. Len(counts)) /\ 1 .. Len(counts) \in SUBSET (1 .. Len(counts))
    BY <1>2
  <2>2. Cardinality(1 .. Len(counts)) = Len(counts)
    <3> DEFINE n == Len(counts)
    <3>1. n \in Int /\ 1 \in Int /\ n >= 1
      BY <1>2
    <3> HIDE DEF n
    <3>2. Cardinality(1 .. n) = IF 1 > n THEN 0 ELSE n - 1 + 1
      BY <3>1, FS_Interval
    <3>3. Cardinality(1 .. n) = n
      BY <3>1, <3>2
    <3> QED BY <3>3 DEF n
  <2> HIDE DEF Z
  <2>3. IsFiniteSet(Z) /\ Cardinality(Z) \in Nat /\ Cardinality(Z) <= Cardinality(1 .. Len(counts))
    BY <1>2, <2>1, PartsFinite
  <2>4. Cardinality(Z) # 0
    BY <1>2, <2>3, FS_EmptySet
  <2> QED BY <1>2, <2>2, <2>3, <2>4
<1>4. NonZero(counts) = SubSeq(counts, 1, Cardinality(Z))
  BY DEF NonZero
<1> HIDE DEF Z
<1>5. NonZero(counts) \in Seq(Nat) /\ Len(NonZero(counts)) = Cardinality(Z)
  BY <1>1, <1>2, <1>3, <1>4
<1> QED BY <1>3, <1>5 DEF counts

\* The beginning of a list.
LEMMA FirstsAre ==
  ASSUME NEW S, NEW b \in Seq(S), NEW d \in 1 .. Len(b)
  PROVE  /\ SubSeq(b, 1, d) \in Seq(S) /\ Len(SubSeq(b, 1, d)) = d /\ SubSeq(b, 1, d) # <<>>
         /\ DOMAIN SubSeq(b, 1, d) = 1 .. d
         /\ \A m \in 1 .. d : SubSeq(b, 1, d)[m] = b[m]
<1>1. Len(b) \in Nat /\ d \in Nat /\ d >= 1 /\ d <= Len(b)
  OBVIOUS
<1>2. SubSeq(b, 1, d) \in Seq(S) /\ Len(SubSeq(b, 1, d)) = d
  BY <1>1
<1>3. DOMAIN SubSeq(b, 1, d) = 1 .. d /\ SubSeq(b, 1, d) # <<>>
  BY <1>1, <1>2
<1>4. \A m \in 1 .. d : SubSeq(b, 1, d)[m] = b[m]
  BY <1>1
<1> QED BY <1>2, <1>3, <1>4

\* What the task is to do about the walk.
LEMMA DecideSized ==
  ASSUME InLine(inst), NEW t \in Tasks, params[t] \in Param, NEW k, Sized(inst, k, params[t])
  PROVE  Sized(inst, Decide(t, k), params[t])
<1> DEFINE p == params[t]
           short == p.count - Len(k.seen)
           doomed == IF short < 0 THEN SubSeq(ByAge(k.seen), 1, -short) ELSE <<>>
           counts == IF p.zones = 0 THEN <<short>> ELSE SpreadCounts(short, p.zones)
<1>1. /\ p.count \in Nat /\ p.zones \in Nat /\ On(k, Known) /\ k.pc \in PoolPlaces
      /\ Tallied(inst, k.seen, k.offset) /\ Marked(inst, k, p)
      /\ k.seen \in Seq(Ever(inst)) /\ Len(k.seen) \in Nat
  BY DEF Param, Sized, ForPool, Tallied
<1>2. ASSUME NEW r PROVE Sized(inst, [k EXCEPT !.pc = "done", !.result = r], p)
  <2> DEFINE l == [k EXCEPT !.pc = "done", !.result = r]
  <2>1. On(l, Known) /\ AsSized(k, l)
    BY <1>1 DEF On, Known, AsSized, PoolPlaces
  <2> HIDE DEF l
  <2>2. Sized(inst, l, p)
    BY <2>1, StaysSized
  <2> QED BY <2>2 DEF l
<1>3. CASE Decide(t, k) = [k EXCEPT !.pc = "terminate", !.doomed = doomed] /\ short < 0
  <2> DEFINE l == [k EXCEPT !.pc = "terminate", !.doomed = doomed]
             N == Len(k.seen)
             b == ByAge(k.seen)
  <2>1. /\ b \in Seq(Ever(inst)) /\ Len(b) = N
        /\ \A m \in 1 .. N :
             \E n \in DOMAIN k.seen : /\ b[m] = k.seen[n]
                                      /\ Cardinality(Behind(inst, k.seen, n)) = N - m
    BY <1>1, ByAgeIs
  <2>2. /\ N \in Nat /\ short < 0 /\ -short \in 1 .. N /\ short = p.count - N
        /\ doomed = SubSeq(b, 1, -short)
    BY <1>1, <1>3
  <2> HIDE DEF b, short, doomed, N
  <2>3. /\ doomed \in Seq(Ever(inst)) /\ Len(doomed) = -short /\ doomed # <<>>
        /\ DOMAIN doomed = 1 .. -short /\ \A m \in 1 .. -short : doomed[m] = b[m]
    <3> DEFINE d == -short
    <3>1. d \in 1 .. Len(b) /\ b \in Seq(Ever(inst)) /\ doomed = SubSeq(b, 1, d)
      <4>1. d \in 1 .. N
        BY <2>2
      <4>2. doomed = SubSeq(b, 1, d)
        BY <2>2
      <4> HIDE DEF d
      <4> QED BY <2>1, <4>1, <4>2
    <3> HIDE DEF d
    <3>2. /\ doomed \in Seq(Ever(inst)) /\ Len(doomed) = d /\ doomed # <<>>
          /\ DOMAIN doomed = 1 .. d /\ \A m \in 1 .. d : doomed[m] = b[m]
      BY <3>1, FirstsAre
    <3> QED BY <3>2 DEF d
  <2>4. ASSUME NEW m \in DOMAIN doomed PROVE p.count <= Cardinality(Younger(inst, doomed[m]))
    <3>1. m \in 1 .. N /\ m <= N - p.count
      <4>1. m \in 1 .. -short
        BY <2>3
      <4>2. N \in Nat /\ short < 0 /\ -short \in 1 .. N /\ short = p.count - N /\ p.count \in Nat
        BY <1>1, <2>2
      <4>3. m \in Int /\ 1 <= m /\ m <= -short
        BY <4>1, <4>2
      <4>4. m <= N - p.count
        BY <4>2, <4>3
      <4> QED BY <4>2, <4>3, <4>4
    <3>2. PICK n \in DOMAIN k.seen : /\ b[m] = k.seen[n]
                                     /\ Cardinality(Behind(inst, k.seen, n)) = N - m
      BY <2>1, <3>1
    <3>3. k.seen[n] \in Ever(inst) /\ doomed[m] = k.seen[n]
      BY <1>1, <2>3, <3>2
    <3>4. Cardinality(Behind(inst, k.seen, n)) <= Cardinality(Younger(inst, k.seen[n]))
      BY <1>1 DEF Tallied
    <3>5. Cardinality(Younger(inst, k.seen[n])) \in Nat
      <4>1. Younger(inst, k.seen[n]) \in SUBSET Ever(inst)
        BY <3>3, AgesAre
      <4> QED BY <4>1, EverFinite
    <3>6. p.count <= N - m
      BY <1>1, <2>2, <3>1
    <3>7. p.count <= Cardinality(Younger(inst, k.seen[n]))
      BY <1>1, <2>2, <3>1, <3>2, <3>4, <3>5, <3>6
    <3> QED BY <3>3, <3>7
  <2>5. /\ On(l, Known) /\ l.pc = "terminate" /\ l.doomed = doomed /\ l.batches = k.batches
        /\ l.seen = k.seen /\ l.offset = k.offset
    BY <1>1 DEF On, Known
  <2> HIDE DEF l
  <2>6. Marked(inst, l, p)
    BY <1>1, <2>3, <2>4, <2>5 DEF Marked
  <2>7. Sized(inst, l, p)
    BY <1>1, <2>5, <2>6 DEF Sized, ForPool, PoolPlaces
  <2> QED BY <1>3, <2>7 DEF l
<1>4. CASE Decide(t, k) = [k EXCEPT !.pc = "run", !.batches = NonZero(counts)] /\ short > 0
  <2> DEFINE q == NonZero(counts)
             l == [k EXCEPT !.pc = "run", !.batches = q]
  <2>1. q \in Seq(Nat) /\ q # <<>>
    <3>1. short \in Nat \ {0}
      BY <1>1, <1>4
    <3> HIDE DEF short
    <3> QED BY <1>1, <3>1, BatchesAre
  <2> HIDE DEF q
  <2>2. /\ On(l, Known) /\ l.pc = "run" /\ l.doomed = k.doomed /\ l.batches = q
        /\ l.seen = k.seen /\ l.offset = k.offset
    BY <1>1 DEF On, Known
  <2> HIDE DEF l
  <2>3. Marked(inst, l, p)
    BY <1>1, <2>1, <2>2 DEF Marked
  <2>4. Sized(inst, l, p)
    BY <1>1, <2>2, <2>3 DEF Sized, ForPool, PoolPlaces
  <2> QED BY <1>4, <2>4 DEF l, q
<1>5. \/ \E r : Decide(t, k) = [k EXCEPT !.pc = "done", !.result = r]
      \/ Decide(t, k) = [k EXCEPT !.pc = "terminate", !.doomed = doomed] /\ short < 0
      \/ Decide(t, k) = [k EXCEPT !.pc = "run", !.batches = NonZero(counts)] /\ short # 0 /\ ~(short < 0)
  BY Zenon DEF Decide
<1>6. short # 0 /\ ~(short < 0) => short > 0
  BY <1>1
<1> HIDE DEF short, doomed, counts, p
<1> QED BY <1>2, <1>3, <1>4, <1>5, <1>6 DEF p

-----------------------------------------------------------------------------
(* What the account does meanwhile.                                        *)

Rowed(a) == On(a, Ids) /\ \A i \in Ids : On(a[i], Columns)

\* From a to b a batch New may be launched, younger than all others, and instances
\* may leave the list.
Follows(a, b, New) ==
  /\ InLine(a) /\ InLine(b)
  /\ New \in SUBSET Ids /\ New \cap Ever(a) = {}
  /\ Ever(b) = Ever(a) \cup New
  /\ \A i \in Ever(a) : b[i].batch = a[i].batch
  /\ \A i \in Ever(a), j \in New : b[j].batch > b[i].batch
  /\ OnList(b) \subseteq OnList(a) \cup New

LEMMA AgesFollow ==
  ASSUME NEW a, NEW b, NEW New, Follows(a, b, New), NEW i \in Ever(a)
  PROVE  /\ i \in Ever(b) /\ Cardinality(New) \in Nat
         /\ Later(b, i) = Later(a, i) \cup New
         /\ Mates(b, i) = Mates(a, i)
         /\ Cardinality(Later(b, i)) = Cardinality(Later(a, i)) + Cardinality(New)
         /\ Cardinality(Younger(b, i)) = Cardinality(Younger(a, i)) + Cardinality(New)
         /\ RankIn(OnList(b), i) <= RankIn(OnList(a), i) + Cardinality(New)
<1>1. /\ InLine(a) /\ InLine(b) /\ New \in SUBSET Ids /\ New \cap Ever(a) = {}
      /\ Ever(b) = Ever(a) \cup New
      /\ \A j \in Ever(a) : b[j].batch = a[j].batch
      /\ \A x \in Ever(a), j \in New : b[j].batch > b[x].batch
      /\ OnList(b) \subseteq OnList(a) \cup New
  BY DEF Follows
<1>2. i \in Ever(b) /\ New \in SUBSET Ever(b)
  BY <1>1
<1>3. \A j \in Ever(b) : b[j].batch \in Nat
  BY <1>1 DEF InLine
<1>4. \A j \in New : b[j].batch > b[i].batch /\ ~(b[j].batch = b[i].batch)
  BY <1>1, <1>2, <1>3
<1>5. Later(b, i) = Later(a, i) \cup New
  <2>1. ASSUME NEW j PROVE j \in Later(b, i) <=> j \in Later(a, i) \cup New
    <3>1. CASE j \in New
      BY <1>1, <1>4, <3>1 DEF Later
    <3>2. CASE j \notin New
      BY <1>1, <3>2 DEF Later
    <3> QED BY <3>1, <3>2
  <2> QED BY <2>1
<1>6. Mates(b, i) = Mates(a, i) /\ Beside(b, i) = Beside(a, i)
  <2>1. ASSUME NEW j
        PROVE  /\ j \in Mates(b, i) <=> j \in Mates(a, i)
               /\ j \in Beside(b, i) <=> j \in Beside(a, i)
    <3>1. CASE j \in New
      BY <1>1, <1>4, <3>1 DEF Mates, Beside
    <3>2. CASE j \notin New
      BY <1>1, <3>2 DEF Mates, Beside
    <3> QED BY <3>1, <3>2
  <2> QED BY <2>1
<1>7. IsFiniteSet(New) /\ Cardinality(New) \in Nat
  BY <1>2, EverFinite
<1>8. /\ IsFiniteSet(Later(a, i)) /\ Cardinality(Later(a, i)) \in Nat
      /\ Later(a, i) \cap New = {}
  <2>1. Later(a, i) \in SUBSET Ever(a)
    BY <1>1, AgesAre
  <2> QED BY <1>1, <2>1, EverFinite
<1>9. Cardinality(Later(b, i)) = Cardinality(Later(a, i)) + Cardinality(New)
  <2>1. Cardinality(Later(a, i) \cup New) =
          Cardinality(Later(a, i)) + Cardinality(New) - Cardinality(Later(a, i) \cap New)
    BY <1>7, <1>8, FS_Union
  <2>2. Cardinality(Later(a, i) \cap New) = 0
    <3>1. Later(a, i) \cap New = {}
      BY <1>8
    <3> QED BY <3>1, FS_EmptySet
  <2>3. Cardinality(Later(a, i) \cup New) = Cardinality(Later(a, i)) + Cardinality(New)
    BY <1>7, <1>8, <2>1, <2>2
  <2> QED BY <1>5, <2>3
<1>10. Cardinality(Younger(b, i)) = Cardinality(Younger(a, i)) + Cardinality(New)
  <2>1. /\ Cardinality(Younger(a, i)) = Cardinality(Later(a, i)) + Cardinality(Beside(a, i))
        /\ Cardinality(Beside(a, i)) \in Nat
    BY <1>1, AgesAre
  <2>2. Cardinality(Younger(b, i)) = Cardinality(Later(b, i)) + Cardinality(Beside(b, i))
    BY <1>1, <1>2, AgesAre
  <2> QED BY <1>6, <1>7, <1>8, <1>9, <2>1, <2>2
<1>11. RankIn(OnList(b), i) <= RankIn(OnList(a), i) + Cardinality(New)
  <2> DEFINE A == {j \in OnList(a) : j >= i}
             B == {j \in OnList(b) : j >= i}
  <2>1. B \subseteq A \cup New
    BY <1>1
  <2>2. A \in SUBSET Ever(a)
    BY EverIs
  <2>3. IsFiniteSet(A)
    BY <2>2, EverFinite
  <2> HIDE DEF A, B
  <2>4. Cardinality(B) <= Cardinality(A) + Cardinality(New)
    BY <1>7, <2>1, <2>3, OldAndNew
  <2> QED BY <2>4 DEF A, B, RankIn
<1> QED BY <1>2, <1>5, <1>6, <1>7, <1>9, <1>10, <1>11

LEMMA TalliedFollows ==
  ASSUME NEW a, NEW b, NEW New, Follows(a, b, New), NEW s, NEW o, Tallied(a, s, o)
  PROVE  Tallied(b, s, o)
<1>1. /\ o \in Nat /\ s \in Seq(Ever(a)) /\ Len(s) <= o /\ Len(s) \in Nat
      /\ DOMAIN s = 1 .. Len(s) /\ \A m \in DOMAIN s : s[m] \in Ever(a)
  BY DEF Tallied
<1>2. /\ InLine(a) /\ InLine(b) /\ New \cap Ever(a) = {} /\ Ever(b) = Ever(a) \cup New
  BY DEF Follows
<1>3. s \in Seq(Ever(b))
  BY <1>1, <1>2
<1>4. ASSUME NEW V PROVE Where(s, V \cup New) = Where(s, V)
  BY <1>1, <1>2 DEF Where
<1>5. \A V : Cardinality(Where(s, V)) \in Nat
  <2>1. \A V : Where(s, V) \in SUBSET (1 .. Len(s))
    BY <1>1 DEF Where
  <2>2. 1 .. Len(s) \in SUBSET (1 .. Len(s))
    OBVIOUS
  <2> QED BY <1>1, <2>1, <2>2, PartsFinite
<1>6. ASSUME NEW i \in Ever(b)
      PROVE  Cardinality(Where(s, Later(b, i))) <= Cardinality(Later(b, i))
  <2>1. CASE i \in Ever(a)
    <3>1. /\ Later(b, i) = Later(a, i) \cup New /\ Cardinality(New) \in Nat
          /\ Cardinality(Later(b, i)) = Cardinality(Later(a, i)) + Cardinality(New)
      BY <2>1, AgesFollow
    <3>2. Cardinality(Where(s, Later(a, i))) <= Cardinality(Later(a, i))
      BY <2>1 DEF Tallied
    <3>3. Cardinality(Later(a, i)) \in Nat
      BY <1>2, <2>1, AgesAre
    <3>4. Cardinality(Where(s, Later(b, i))) = Cardinality(Where(s, Later(a, i)))
      BY <1>4, <3>1
    <3> QED BY <1>5, <3>1, <3>2, <3>3, <3>4
  \* Nothing that was seen is later than a new one.
  <2>2. CASE i \in New
    <3>1. Where(s, Later(b, i)) = {}
      <4>1. ASSUME NEW m \in DOMAIN s, s[m] \in Later(b, i) PROVE FALSE
        <5>1. s[m] \in Ever(a)
          BY <1>1
        <5>2. b[i].batch > b[s[m]].batch
          BY <2>2, <5>1 DEF Follows
        <5>3. b[s[m]].batch > b[i].batch
          BY <4>1 DEF Later
        <5>4. b[i].batch \in Nat /\ b[s[m]].batch \in Nat
          BY <1>2, <5>1 DEF InLine
        <5> QED BY <5>2, <5>3, <5>4
      <4> QED BY <4>1 DEF Where
    <3>2. Cardinality(Later(b, i)) \in Nat
      BY <1>2, AgesAre
    <3> QED BY <3>1, <3>2, FS_EmptySet
  <2> QED BY <1>2, <2>1, <2>2
<1>7. ASSUME NEW n \in DOMAIN s
      PROVE  /\ Cardinality(Behind(b, s, n)) <= Cardinality(Younger(b, s[n]))
             /\ Cardinality(Behind(b, s, n)) + RankIn(OnList(b), s[n]) <= Cardinality(Later(b, s[n])) + o
  <2> DEFINE y == s[n]
  <2>1. y \in Ever(a)
    BY <1>1
  <2>2. /\ y \in Ever(b) /\ Cardinality(New) \in Nat
        /\ Later(b, y) = Later(a, y) \cup New
        /\ Mates(b, y) = Mates(a, y)
        /\ Cardinality(Later(b, y)) = Cardinality(Later(a, y)) + Cardinality(New)
        /\ Cardinality(Younger(b, y)) = Cardinality(Younger(a, y)) + Cardinality(New)
        /\ RankIn(OnList(b), y) <= RankIn(OnList(a), y) + Cardinality(New)
    BY <2>1, AgesFollow
  <2>3. Behind(b, s, n) = Behind(a, s, n)
    BY <1>4, <2>2 DEF Behind
  <2>4. /\ Cardinality(Behind(a, s, n)) <= Cardinality(Younger(a, y))
        /\ Cardinality(Behind(a, s, n)) + RankIn(OnList(a), y) <= Cardinality(Later(a, y)) + o
    BY DEF Tallied
  <2>5. Cardinality(Behind(a, s, n)) \in Nat
    <3>1. Behind(a, s, n) \in SUBSET (1 .. Len(s)) /\ 1 .. Len(s) \in SUBSET (1 .. Len(s))
      BY <1>1 DEF Behind, Where, After
    <3> QED BY <1>1, <3>1, PartsFinite
  <2>6. /\ Cardinality(Later(a, y)) \in Nat /\ Cardinality(Beside(a, y)) \in Nat
        /\ Cardinality(Younger(a, y)) = Cardinality(Later(a, y)) + Cardinality(Beside(a, y))
        /\ RankIn(OnList(a), y) \in Nat
    BY <1>2, <2>1, AgesAre
  <2>7. RankIn(OnList(b), y) \in Nat
    BY <1>2, <2>2, AgesAre
  <2> HIDE DEF y
  <2>8. Cardinality(Behind(a, s, n)) <= Cardinality(Younger(b, y))
    BY <2>2, <2>4, <2>5, <2>6
  <2> DEFINE c == Cardinality(Behind(a, s, n))
             v == Cardinality(New)
             l == Cardinality(Later(a, y))
             k == RankIn(OnList(a), y)
             h == RankIn(OnList(b), y)
  <2>9. /\ c \in Int /\ v \in Int /\ l \in Int /\ k \in Int /\ h \in Int /\ o \in Int
        /\ c + k <= l + o /\ h <= k + v /\ Cardinality(Later(b, y)) = l + v
    BY <1>1, <2>2, <2>4, <2>5, <2>6, <2>7
  <2> HIDE DEF c, v, l, k, h
  <2>10. c + h <= Cardinality(Later(b, y)) + o
    BY <2>9
  <2> QED BY <2>3, <2>8, <2>10 DEF c, h, y
<1> QED BY <1>1, <1>3, <1>6, <1>7 DEF Tallied

LEMMA SizedFollows ==
  ASSUME NEW a, NEW b, NEW New, Follows(a, b, New), NEW k, NEW p, p.count \in Nat, Sized(a, k, p)
  PROVE  Sized(b, k, p)
<1>1. ForPool(k) /\ Tallied(a, k.seen, k.offset) /\ Marked(a, k, p)
  BY DEF Sized
<1>2. Tallied(b, k.seen, k.offset)
  BY <1>1, TalliedFollows
<1>3. Ever(b) = Ever(a) \cup New /\ InLine(a)
  BY DEF Follows
<1>4. k.doomed \in Seq(Ever(a)) /\ k.doomed \in Seq(Ever(b))
  BY <1>1, <1>3 DEF Marked
<1>5. ASSUME NEW n \in DOMAIN k.doomed PROVE p.count <= Cardinality(Younger(b, k.doomed[n]))
  <2> DEFINE y == k.doomed[n]
  <2>1. y \in Ever(a) /\ p.count <= Cardinality(Younger(a, y))
    BY <1>1, <1>4 DEF Marked
  <2> HIDE DEF y
  <2>2. /\ Cardinality(New) \in Nat
        /\ Cardinality(Younger(b, y)) = Cardinality(Younger(a, y)) + Cardinality(New)
    BY <2>1, AgesFollow
  <2>3. Cardinality(Younger(a, y)) \in Nat
    <3>1. Younger(a, y) \in SUBSET Ever(a)
      BY <1>3, <2>1, AgesAre
    <3> QED BY <3>1, EverFinite
  <2>4. p.count <= Cardinality(Younger(b, y))
    BY <2>1, <2>2, <2>3
  <2> QED BY <2>4 DEF y
<1>6. Marked(b, k, p)
  BY <1>1, <1>4, <1>5 DEF Marked
<1> QED BY <1>1, <1>2, <1>6 DEF Sized

-----------------------------------------------------------------------------
(* Steps of the account.                                                   *)

Out == {"TERMINATING", "TERMINATED", "GONE"}

\* Only an instance that leaves p's count of younger ones goes out.
Turns(a, b, p) ==
  /\ Rowed(b) /\ \E New : Follows(a, b, New)
  /\ \A i \in Ever(b) : b[i].state \in Out =>
       i \in Ever(a) /\ (a[i].state \in Out \/ p.count <= Cardinality(Younger(a, i)))

\* Members, batches and ids stay, and who is off the list stays off.
SameMembers(a, b) ==
  /\ \A j \in Ids : /\ b[j].pool = a[j].pool /\ b[j].batch = a[j].batch
                    /\ b[j].state = "UNBORN" <=> a[j].state = "UNBORN"
                    /\ a[j].state = "GONE" => b[j].state = "GONE"

LEMMA SameFollows ==
  ASSUME NEW a, NEW b, InLine(a), SameMembers(a, b)
  PROVE  Follows(a, b, {}) /\ Ever(b) = Ever(a)
<1>1. Ever(b) = Ever(a) /\ Waiting(b) = Waiting(a)
  BY DEF Ever, Waiting, SameMembers
<1>2. \A i \in Ever(a) : b[i].batch = a[i].batch
  BY DEF Ever, SameMembers
<1>3. InLine(b)
  BY <1>1, <1>2 DEF InLine
<1>4. OnList(b) \subseteq OnList(a)
  BY DEF OnList, SameMembers
<1> QED BY <1>1, <1>2, <1>3, <1>4 DEF Follows

LEMMA Rests ==
  ASSUME NEW a, InLine(a), Rowed(a), NEW p
  PROVE  Turns(a, a, p)
<1>1. SameMembers(a, a)
  BY DEF SameMembers
<1>2. Follows(a, a, {})
  BY <1>1, SameFollows
<1> QED BY <1>2 DEF Turns

LEMMA KillTurns ==
  ASSUME InLine(inst), Rowed(inst), NEW i \in Ever(inst), Killable(i), NEW t, NEW p,
         p.count <= Cardinality(Younger(inst, i))
  PROVE  Turns(inst, Killed(i, t), p)
<1> DEFINE b == Killed(i, t)
<1>1. i \in Ids /\ inst[i].state \notin Out /\ inst[i].state # "UNBORN"
  BY DEF Ever, Killable, Out
<1>2. On(b, Ids) /\ \A j \in Ids \ {i} : b[j] = inst[j]
  BY DEF Killed, Rowed, On
<1>3. b[i] = [inst[i] EXCEPT !.state = "TERMINATING", !.killer = t]
  BY <1>1 DEF Killed, Rowed, On
<1>4. On(inst[i], Columns)
  BY <1>1 DEF Rowed
<1> HIDE DEF b
<1>5. On(b[i], Columns) /\ b[i].state = "TERMINATING" /\ b[i].pool = inst[i].pool /\ b[i].batch = inst[i].batch
  BY <1>3, <1>4 DEF On, Columns
<1>6. Rowed(b)
  BY <1>1, <1>2, <1>5 DEF Rowed
<1>7. SameMembers(inst, b)
  BY <1>1, <1>2, <1>5 DEF SameMembers, Out
<1>8. Follows(inst, b, {}) /\ Ever(b) = Ever(inst)
  BY <1>7, SameFollows
<1>9. ASSUME NEW j \in Ever(b), b[j].state \in Out
      PROVE  j \in Ever(inst) /\ (inst[j].state \in Out \/ p.count <= Cardinality(Younger(inst, j)))
  <2>1. CASE j = i
    BY <2>1
  <2>2. CASE j # i
    <3>1. j \in Ids
      BY DEF Ever
    <3> QED BY <1>2, <1>8, <1>9, <2>2, <3>1
  <2> QED BY <2>1, <2>2
<1>10. Turns(inst, b, p)
  BY <1>6, <1>8, <1>9 DEF Turns
<1> QED BY <1>10 DEF b

LEMMA SettleTurns ==
  ASSUME InLine(inst), Rowed(inst), NEW i \in Ids, Settle(i), NEW p
  PROVE  /\ Turns(inst, inst', p)
         /\ \A j \in Ever(inst') : inst'[j].state \in Out => inst[j].state \in Out
<1>1. PICK s : Becomes(i, s) /\ s \notin {"UNBORN"} /\ inst[i].state \notin {"UNBORN", "GONE"}
               /\ (s \in Out => inst[i].state \in Out)
  BY DEF Settle, Out
<1>2. On(inst', Ids) /\ \A j \in Ids \ {i} : inst'[j] = inst[j]
  BY <1>1 DEF Becomes, Rowed, On
<1>3. inst'[i] = [inst[i] EXCEPT !.state = s, !.asked = FALSE]
  BY <1>1 DEF Becomes, Rowed, On
<1>4. On(inst[i], Columns)
  BY DEF Rowed
<1> DEFINE b == inst'
<1> HIDE DEF b
<1>5. /\ On(b[i], Columns) /\ b[i].state = s /\ b[i].pool = inst[i].pool
      /\ b[i].batch = inst[i].batch
  BY <1>3, <1>4 DEF On, Columns, b
<1>6. Rowed(b)
  BY <1>2, <1>5 DEF Rowed, b
<1>7. SameMembers(inst, b)
  BY <1>1, <1>2, <1>5 DEF SameMembers, b
<1>8. Follows(inst, b, {}) /\ Ever(b) = Ever(inst)
  BY <1>7, SameFollows
<1>9. ASSUME NEW j \in Ever(b), b[j].state \in Out PROVE j \in Ever(inst) /\ inst[j].state \in Out
  <2>1. j \in Ids
    BY DEF Ever
  <2>2. CASE j = i
    BY <1>1, <1>5, <1>8, <1>9, <2>2
  <2>3. CASE j # i
    BY <1>2, <1>8, <1>9, <2>1, <2>3 DEF b
  <2> QED BY <2>2, <2>3
<1>10. Turns(inst, b, p)
  BY <1>6, <1>8, <1>9 DEF Turns
<1> QED BY <1>9, <1>10 DEF b

\* The least of a set of ids.
LEMMA LeastIs ==
  ASSUME NEW N \in Nat, NEW S \in SUBSET (1 .. N), S # {}
  PROVE  \E m \in S : \A j \in S : m <= j
<1>1. IsFiniteSet(S) /\ Cardinality(S) \in Nat /\ Cardinality(S) # 0
  <2>1. IsFiniteSet(S) /\ Cardinality(S) \in Nat
    BY PartsFinite
  <2> QED BY <2>1, FS_EmptySet
<1> DEFINE m == NewestFirst(S)[Cardinality(S)]
           A == {j \in S : j >= m}
<1>2. m \in S /\ RankIn(S, m) = Cardinality(S)
  <2>1. Cardinality(S) \in 1 .. Cardinality(S)
    BY <1>1
  <2> QED BY <2>1, NewestFirstIs
<1> HIDE DEF m
<1>3. A = S
  <2>1. A \in SUBSET S /\ Cardinality(A) = Cardinality(S)
    BY <1>2 DEF RankIn
  <2> HIDE DEF A
  <2> QED BY <1>1, <2>1, FS_Subset
<1>4. \A j \in S : j >= m /\ j \in Nat /\ m \in Nat
  BY <1>2, <1>3
<1> QED BY <1>2, <1>4

LEMMA LaunchTurns ==
  ASSUME InLine(inst), Rowed(inst), NEW n \in Nat, NEW p, p.kind = "pool"
  PROVE  Turns(inst, Launched(n, p), p)
<1> DEFINE b == Launched(n, p)
           New == NewIds(n)
           m == CHOOSE m \in New : \A j \in New : m <= j
<1>1. /\ New \in SUBSET Ids /\ New \in SUBSET Waiting(inst) /\ Ids = 1 .. MaxId /\ MaxId \in Nat
      /\ Unborn = Waiting(inst)
  BY CvmAssumption DEF NewIds, Unborn, Waiting, Ids
<1>2. On(b, Ids) /\ \A j \in Ids \ New : b[j] = inst[j]
  BY DEF Launched, On
<1>3. ASSUME NEW j \in New
      PROVE  /\ On(b[j], Columns) /\ b[j].state = "PENDING" /\ b[j].pool /\ b[j].batch = m
             /\ m \in New /\ m <= j
  <2> DEFINE c == [x \in Fields |-> IF p.want[x] = None THEN inst[j].conf[x] ELSE p.want[x]]
             s == p.kind = "pool"
  <2>1. j \in Ids
    BY <1>1
  <2>2. b[j] = [inst[j] EXCEPT !.state = "PENDING", !.name = p.name, !.pool = s,
                               !.batch = m, !.conf = c]
    BY <2>1, Zenon DEF Launched
  <2>3. On(inst[j], Columns)
    BY <2>1 DEF Rowed
  <2>4. s
    OBVIOUS
  <2>5. \E x \in New : \A y \in New : x <= y
    <3> HIDE DEF New
    <3> QED BY <1>1, LeastIs
  <2>6. m \in New /\ m <= j
    <3> HIDE DEF New
    <3> QED BY <2>5
  <2> HIDE DEF c, m, s, b, New
  <2>7. /\ On(b[j], Columns) /\ b[j].state = "PENDING" /\ b[j].batch = m /\ b[j].pool = s
    BY <2>2, <2>3 DEF On, Columns
  <2> QED BY <2>4, <2>6, <2>7
\* New ones come before the ids that are left.
<1>4. ASSUME NEW i \in New, NEW j \in Waiting(inst) \ New PROVE i < j
  <2> DEFINE A == {x \in Waiting(inst) : x < i}
             B == {x \in Waiting(inst) : x < j}
  <2>1. Cardinality(A) < n /\ ~(Cardinality(B) < n)
    BY <1>1 DEF NewIds
  <2>2. i \in Nat /\ j \in Nat /\ \A x \in Waiting(inst) : x \in Nat
    BY <1>1 DEF Waiting
  <2>3. SUFFICES ASSUME ~(i < j) PROVE FALSE
    OBVIOUS
  <2>4. B \in SUBSET A
    <3>1. j <= i
      BY <2>2, <2>3
    <3>2. \A x \in Waiting(inst) : x < j => x < i
      BY <2>2, <3>1
    <3> QED BY <3>2
  <2>5. A \in SUBSET (1 .. MaxId)
    BY <1>1 DEF Waiting
  <2> HIDE DEF A, B
  <2>6. Cardinality(B) <= Cardinality(A) /\ Cardinality(A) \in Nat /\ Cardinality(B) \in Nat
    <3>1. A \in SUBSET A /\ B \in SUBSET (1 .. MaxId)
      BY <2>4, <2>5
    <3> QED BY <1>1, <2>4, <2>5, <3>1, PartsFinite
  <2> QED BY <2>1, <2>6
<1> HIDE DEF b, New, m
<1>5. Ever(b) = Ever(inst) \cup New /\ New \cap Ever(inst) = {}
  <2>1. New \cap Ever(inst) = {}
    BY <1>1 DEF Ever, Waiting
  <2>2. ASSUME NEW j PROVE j \in Ever(b) <=> j \in Ever(inst) \cup New
    <3>1. CASE j \in New
      BY <1>1, <1>3, <3>1 DEF Ever
    <3>2. CASE j \notin New
      BY <1>2, <3>2 DEF Ever
    <3> QED BY <3>1, <3>2
  <2> QED BY <2>1, <2>2
<1>6. Waiting(b) = Waiting(inst) \ New
  <2>1. ASSUME NEW j PROVE j \in Waiting(b) <=> j \in Waiting(inst) \ New
    <3>1. CASE j \in New
      BY <1>1, <1>3, <3>1 DEF Waiting
    <3>2. CASE j \notin New
      BY <1>2, <3>2 DEF Waiting
    <3> QED BY <3>1, <3>2
  <2> QED BY <2>1
<1>7. ASSUME NEW i \in Ever(inst)
      PROVE  /\ i \in Nat /\ b[i] = inst[i] /\ b[i].batch \in Nat /\ b[i].batch <= i
             /\ \A j \in New : i < j /\ j \in Nat /\ b[j].batch \in Nat
                               /\ b[j].batch <= j /\ b[j].batch > b[i].batch
  <2>1. b[i] = inst[i] /\ b[i].batch \in Nat /\ b[i].batch <= i /\ i \in Nat
    <3>1. i \in Ids \ New /\ i \in Nat
      BY <1>1, <1>5 DEF Ever
    <3> QED BY <1>2, <3>1 DEF InLine
  <2>2. ASSUME NEW j \in New
        PROVE  i < j /\ j \in Nat /\ b[j].batch \in Nat /\ b[j].batch <= j /\ b[j].batch > b[i].batch
    <3>1. m \in New /\ m <= j /\ b[j].batch = m
      BY <1>3
    <3>2. i < j /\ i < m /\ j \in Nat /\ m \in Nat
      BY <1>1, <3>1 DEF InLine
    <3> QED BY <2>1, <3>1, <3>2
  <2> QED BY <2>1, <2>2
<1>8. InLine(b)
  <2>1. ASSUME NEW i \in Ever(b) PROVE b[i].batch \in Nat /\ b[i].batch <= i
    <3>1. CASE i \in Ever(inst)
      BY <1>7, <3>1
    <3>2. CASE i \in New
      <4>1. b[i].batch = m /\ m \in New /\ m <= i
        BY <1>3, <3>2
      <4>2. m \in Nat
        BY <1>1, <4>1
      <4> QED BY <4>1, <4>2
    <3> QED BY <1>5, <3>1, <3>2
  <2>2. ASSUME NEW i \in Ever(b), NEW j \in Ever(b), i < j PROVE b[i].batch <= b[j].batch
    <3>1. CASE i \in Ever(inst) /\ j \in Ever(inst)
      BY <1>7, <2>2, <3>1 DEF InLine
    <3>2. CASE i \in Ever(inst) /\ j \in New
      BY <1>7, <3>2
    <3>3. CASE i \in New /\ j \in Ever(inst)
      <4>1. j < i /\ i \in Nat /\ j \in Nat
        BY <1>7, <3>3
      <4> QED BY <2>2, <4>1
    <3>4. CASE i \in New /\ j \in New
      <4>1. b[i].batch = m /\ b[j].batch = m /\ m \in New
        BY <1>3, <3>4
      <4>2. m \in Nat
        BY <1>1, <4>1
      <4> QED BY <4>1, <4>2
    <3> QED BY <1>5, <3>1, <3>2, <3>3, <3>4
  <2>3. ASSUME NEW i \in Ever(b), NEW j \in Waiting(b) PROVE i < j
    <3>1. CASE i \in Ever(inst)
      BY <1>6, <3>1 DEF InLine
    <3>2. CASE i \in New
      BY <1>4, <1>6, <3>2
    <3> QED BY <1>5, <3>1, <3>2
  <2> QED BY <2>1, <2>2, <2>3 DEF InLine
<1>9. OnList(b) \subseteq OnList(inst) \cup New
  BY <1>2 DEF OnList
<1>10. Follows(inst, b, New)
  BY <1>1, <1>5, <1>7, <1>8, <1>9 DEF Follows
<1>11. Rowed(b)
  BY <1>2, <1>3 DEF Rowed
<1>12. ASSUME NEW i \in Ever(b), b[i].state \in Out PROVE i \in Ever(inst) /\ inst[i].state \in Out
  <2>1. i \notin New
    BY <1>3, <1>12 DEF Out
  <2> QED BY <1>5, <1>7, <1>12, <2>1
<1>13. Turns(inst, b, p)
  BY <1>10, <1>11, <1>12 DEF Turns
<1> QED BY <1>13 DEF b

\* The accounts under consideration: ids and batches were given in order, and no
\* member is on its way out.
Orderly(a) == InLine(a) /\ \A i \in Ever(a) : a[i].state \notin Out

OrderlyAccounts == \A s \in Scenarios : Orderly(s.account)

-----------------------------------------------------------------------------
(* The steps of a task for the pool.                                       *)

\* Every task of the run is for the pool, and nobody went out who did not leave
\* some task's count of younger ones.
AllPool == \A t \in Tasks : params[t].kind = "pool"

Spared(i) == \E t \in Tasks : params[t].count <= Cardinality(Younger(inst, i))

Pooled ==
  /\ params \in [Tasks -> Param] /\ On(task, Tasks) /\ Rowed(inst) /\ InLine(inst)
  /\ \A t \in Tasks : Sized(inst, task[t], params[t])
  /\ \A i \in Ever(inst) : inst[i].state \in Out => Spared(i)
  /\ start \subseteq Ever(inst)

PInv == AllPool => Pooled

\* What one step of t leaves.
Went(t) ==
  /\ Sized(inst, task'[t], params[t]) /\ Turns(inst, inst', params[t])
  /\ On(task', Tasks) /\ \A u \in Tasks \ {t} : task'[u] = task[u]

LEMMA PoolCall ==
  ASSUME Pooled, NEW t \in Tasks, NEW accepted \in BOOLEAN, NEW effect, NEW k,
         Call(t, accepted, effect, k),
         accepted => Sized(inst, k, params[t]) /\ Turns(inst, effect, params[t])
  PROVE  Went(t)
<1> DEFINE p == params[t]
<1>1. /\ On(task, Tasks) /\ Rowed(inst) /\ InLine(inst) /\ Sized(inst, task[t], p)
      /\ On(task[t], Known) /\ task[t].pc \in PoolPlaces
  BY DEF Pooled, Sized, ForPool
<1>2. Turns(inst, inst, p)
  BY <1>1, Rests
<1>3. ASSUME NEW l, Set(t, l)
      PROVE  task'[t] = l /\ On(task', Tasks) /\ \A u \in Tasks \ {t} : task'[u] = task[u]
  BY <1>1, <1>3 DEF Set, On
<1>4. ASSUME NEW r PROVE On(EndedAs(t, r), Known) /\ AsSized(task[t], EndedAs(t, r))
  BY <1>1 DEF EndedAs, On, Known, AsSized, PoolPlaces
<1>5. ASSUME NEW f PROVE Sized(inst, Raise(t, f), p)
  <2> DEFINE e == EndedAs(t, "failed")
             x == [task[t] EXCEPT !.tries = @ + 1, !.lost = @ \/ f.done]
             y == [e EXCEPT !.lost = @ \/ f.done]
  <2>1. On(x, Known) /\ AsSized(task[t], x)
    BY <1>1 DEF On, Known, AsSized
  <2>2. On(y, Known) /\ AsSized(task[t], y)
    <3>1. On(e, Known) /\ AsSized(task[t], e)
      BY <1>4
    <3> HIDE DEF e
    <3> QED BY <3>1 DEF On, Known, AsSized
  <2>3. Raise(t, f) = x \/ Raise(t, f) = y
    BY DEF Raise
  <2> HIDE DEF x, y
  <2> QED BY <1>1, <2>1, <2>2, <2>3, StaysSized
<1>6. Sized(inst, EndedAs(t, "failed"), p)
  BY <1>1, <1>4, StaysSized
<1>7. CASE accepted /\ inst' = effect /\ Set(t, k)
  BY <1>3, <1>7 DEF Went
<1>8. CASE ~accepted /\ inst' = inst /\ Set(t, EndedAs(t, "failed"))
  BY <1>2, <1>3, <1>6, <1>8 DEF Went
<1>9. ASSUME NEW f \in Faults, inst' = IF accepted /\ f.done THEN effect ELSE inst,
             Set(t, Raise(t, f))
      PROVE  Went(t)
  <2>1. Turns(inst, inst', p)
    BY <1>2, <1>9
  <2> QED BY <1>3, <1>5, <1>9, <2>1 DEF Went
<1> QED BY <1>7, <1>8, <1>9 DEF Call

LEMMA PoolRead ==
  ASSUME Pooled, NEW t \in Tasks, NEW k, Read(t, k), Sized(inst, k, params[t])
  PROVE  Went(t)
<1>1. Turns(inst, inst, params[t])
  BY Rests DEF Pooled
<1>2. Call(t, TRUE, inst, k)
  BY DEF Read
<1> QED BY <1>1, <1>2, PoolCall

LEMMA PageWent ==
  ASSUME Pooled, NEW t \in Tasks, Page(t)
  PROVE  Went(t)
<1> DEFINE k == task[t]
           p == params[t]
           rows == PageAt(k.offset)
           o == k.offset + Len(rows)
           s == k.seen \o NewestFirst(ToSet(rows) \cap Pool)
           now == [k EXCEPT !.tries = 0, !.offset = o, !.seen = s]
           told == [now EXCEPT !.pc = "done", !.result = "changed"]
<1>1. /\ InLine(inst) /\ Sized(inst, k, p) /\ On(k, Known) /\ k.pc \in PoolPlaces /\ p \in Param
      /\ Tallied(inst, k.seen, k.offset) /\ k.offset \in Nat
  BY DEF Pooled, Sized, ForPool, Tallied
<1>2. Tallied(inst, s, o)
  <2>1. OnPage(inst, ToSet(rows) \cap Pool, k.offset, Len(rows))
    BY <1>1, PageRows
  <2> HIDE DEF rows
  <2> QED BY <1>1, <2>1, PageTallied
<1>3. Read(t, now) \/ Read(t, Decide(t, now)) \/ Read(t, told)
  BY DEF Page
<1> HIDE DEF s, o
<1>4. /\ On(now, Known) /\ now.pc = k.pc /\ now.seen = s /\ now.offset = o
      /\ now.batches = k.batches /\ now.doomed = k.doomed
  BY <1>1 DEF On, Known
<1> HIDE DEF now
<1>5. Sized(inst, now, p)
  BY <1>1, <1>2, <1>4 DEF Sized, ForPool, Marked
<1>6. On(told, Known) /\ AsSized(now, told)
  BY <1>4 DEF On, Known, AsSized, PoolPlaces
<1> HIDE DEF told
<1>7. Sized(inst, told, p)
  BY <1>5, <1>6, StaysSized
<1>8. Sized(inst, Decide(t, now), p)
  BY <1>1, <1>5, DecideSized
<1> QED BY <1>3, <1>5, <1>7, <1>8, PoolRead

\* The rest of a list.
LEMMA TailIs ==
  ASSUME NEW S, NEW s \in Seq(S), s # <<>>
  PROVE  /\ Head(s) \in S /\ 1 \in DOMAIN s /\ Head(s) = s[1] /\ Tail(s) \in Seq(S)
         /\ \A n \in DOMAIN Tail(s) : n + 1 \in DOMAIN s /\ Tail(s)[n] = s[n + 1]
<1>1. Len(s) \in Nat /\ DOMAIN s = 1 .. Len(s) /\ Len(s) # 0
  BY EmptySeq
<1>2. /\ Tail(s) \in Seq(S) /\ Len(Tail(s)) = Len(s) - 1 /\ DOMAIN Tail(s) = 1 .. (Len(s) - 1)
      /\ \A n \in 1 .. (Len(s) - 1) : Tail(s)[n] = s[n + 1]
  BY <1>1
<1>3. 1 \in DOMAIN s /\ Head(s) = s[1] /\ s[1] \in S
  BY <1>1
<1> QED BY <1>1, <1>2, <1>3

LEMMA RunBatchWent ==
  ASSUME Pooled, AllPool, NEW t \in Tasks, RunBatch(t)
  PROVE  Went(t)
<1> DEFINE k == task[t]
           p == params[t]
           n == Head(k.batches)
           q == Tail(k.batches)
           d == InOrder(NewIds(n))
           l == [At(t, "await") EXCEPT !.batches = q, !.goal = "RUNNING", !.todo = d]
           m == Cardinality(Unborn) >= n
<1>1. /\ InLine(inst) /\ Rowed(inst) /\ Sized(inst, k, p) /\ On(k, Known) /\ p.kind = "pool"
      /\ Tallied(inst, k.seen, k.offset) /\ Marked(inst, k, p)
  BY DEF Pooled, Sized, ForPool, AllPool
<1>2. k.pc = "run"
  BY DEF RunBatch
<1>3. k.batches \in Seq(Nat) /\ k.batches # <<>>
  BY <1>1, <1>2 DEF Marked
<1>4. n \in Nat /\ q \in Seq(Nat)
  BY <1>3, TailIs
<1>5. Call(t, m, Launched(n, p), l)
  <2>1. [At(t, "await") EXCEPT !.batches = Tail(@), !.goal = "RUNNING", !.todo = d] = l
    <3>1. On(At(t, "await"), Known) /\ At(t, "await").batches = k.batches
      BY <1>1 DEF At, On, Known
    <3> QED BY <3>1
  <2>2. Call(t, m, Launched(n, p), [At(t, "await") EXCEPT !.batches = Tail(@), !.goal = "RUNNING", !.todo = d])
    BY DEF RunBatch
  <2> QED BY <2>1, <2>2
<1> HIDE DEF n, q, d
<1>6. /\ On(l, Known) /\ l.pc = "await" /\ l.batches = q /\ l.doomed = k.doomed
      /\ l.seen = k.seen /\ l.offset = k.offset
  <2> DEFINE a == At(t, "await")
  <2>1. /\ On(a, Known) /\ a.pc = "await" /\ a.doomed = k.doomed
        /\ a.seen = k.seen /\ a.offset = k.offset
    BY <1>1 DEF At, On, Known
  <2> HIDE DEF a
  <2>2. LET x == [a EXCEPT !.batches = q, !.goal = "RUNNING", !.todo = d]
        IN  /\ On(x, Known) /\ x.pc = "await" /\ x.batches = q /\ x.doomed = k.doomed
            /\ x.seen = k.seen /\ x.offset = k.offset
    BY <2>1 DEF On, Known
  <2> QED BY <2>2 DEF a
<1> HIDE DEF l
<1>7. Marked(inst, l, p)
  BY <1>1, <1>4, <1>6 DEF Marked
<1>8. Sized(inst, l, p)
  BY <1>1, <1>6, <1>7 DEF Sized, ForPool, PoolPlaces
<1>9. Turns(inst, Launched(n, p), p)
  BY <1>1, <1>4, LaunchTurns
<1>10. m \in BOOLEAN
  OBVIOUS
<1> HIDE DEF m
<1> QED BY <1>5, <1>8, <1>9, <1>10, PoolCall

LEMMA TerminateWent ==
  ASSUME Pooled, NEW t \in Tasks, TerminateOldest(t)
  PROVE  Went(t)
<1> DEFINE k == task[t]
           p == params[t]
           i == Head(k.doomed)
           q == Tail(k.doomed)
           l == [At(t, "await") EXCEPT !.doomed = q, !.goal = "GONE", !.todo = <<i>>]
<1>1. /\ InLine(inst) /\ Rowed(inst) /\ Sized(inst, k, p) /\ On(k, Known)
      /\ Tallied(inst, k.seen, k.offset) /\ Marked(inst, k, p)
  BY DEF Pooled, Sized, ForPool
<1>2. k.pc = "terminate"
  BY DEF TerminateOldest
<1>3. /\ k.doomed \in Seq(Ever(inst)) /\ k.doomed # <<>> /\ k.batches \in Seq(Nat)
      /\ \A n \in DOMAIN k.doomed : p.count <= Cardinality(Younger(inst, k.doomed[n]))
  BY <1>1, <1>2 DEF Marked
<1>4. /\ i \in Ever(inst) /\ q \in Seq(Ever(inst)) /\ p.count <= Cardinality(Younger(inst, i))
      /\ \A n \in DOMAIN q : p.count <= Cardinality(Younger(inst, q[n]))
  <2>1. /\ i \in Ever(inst) /\ 1 \in DOMAIN k.doomed /\ i = k.doomed[1] /\ q \in Seq(Ever(inst))
        /\ \A n \in DOMAIN q : n + 1 \in DOMAIN k.doomed /\ q[n] = k.doomed[n + 1]
    BY <1>3, TailIs
  <2> HIDE DEF i, q
  <2> QED BY <1>3, <2>1
<1>5. Call(t, Killable(i), Killed(i, t), l)
  <2>1. [At(t, "await") EXCEPT !.doomed = Tail(@), !.goal = "GONE", !.todo = <<i>>] = l
    <3>1. On(At(t, "await"), Known) /\ At(t, "await").doomed = k.doomed
      BY <1>1 DEF At, On, Known
    <3> QED BY <3>1
  <2>2. Call(t, Killable(i), Killed(i, t), [At(t, "await") EXCEPT !.doomed = Tail(@), !.goal = "GONE", !.todo = <<i>>])
    BY DEF TerminateOldest
  <2> QED BY <2>1, <2>2
<1> HIDE DEF i, q
<1>6. /\ On(l, Known) /\ l.pc = "await" /\ l.batches = k.batches /\ l.doomed = q
      /\ l.seen = k.seen /\ l.offset = k.offset
  <2> DEFINE a == At(t, "await")
  <2>1. /\ On(a, Known) /\ a.pc = "await" /\ a.batches = k.batches
        /\ a.seen = k.seen /\ a.offset = k.offset
    BY <1>1 DEF At, On, Known
  <2> HIDE DEF a
  <2>2. LET x == [a EXCEPT !.doomed = q, !.goal = "GONE", !.todo = <<i>>]
        IN  /\ On(x, Known) /\ x.pc = "await" /\ x.batches = k.batches /\ x.doomed = q
            /\ x.seen = k.seen /\ x.offset = k.offset
    BY <2>1 DEF On, Known
  <2> QED BY <2>2 DEF a
<1> HIDE DEF l
<1>7. Marked(inst, l, p)
  BY <1>3, <1>4, <1>6 DEF Marked
<1>8. Sized(inst, l, p)
  BY <1>1, <1>6, <1>7 DEF Sized, ForPool, PoolPlaces
<1>9. Killable(i) => Turns(inst, Killed(i, t), p)
  BY <1>1, <1>4, KillTurns
<1>10. Killable(i) \in BOOLEAN
  BY DEF Killable
<1> QED BY <1>5, <1>8, <1>9, <1>10, PoolCall

LEMMA PollWent ==
  ASSUME Pooled, AllPool, NEW t \in Tasks, Poll(t)
  PROVE  Went(t)
<1> DEFINE k == task[t]
           p == params[t]
           w == [k EXCEPT !.todo = Tail(@), !.tries = 0]
           z == [k EXCEPT !.tries = 0]
           e == EndedAs(t, "failed")
<1>1. /\ InLine(inst) /\ Sized(inst, k, p) /\ On(k, Known) /\ k.pc = "await" /\ p.kind = "pool"
      /\ Marked(inst, k, p)
  BY DEF Pooled, Sized, ForPool, AllPool, Poll
<1>2. Read(t, Waited(t)) \/ Read(t, e) \/ Read(t, z)
  BY DEF Poll
<1>3. On(z, Known) /\ AsSized(k, z) /\ On(e, Known) /\ AsSized(k, e)
  BY <1>1 DEF On, Known, AsSized, PoolPlaces, EndedAs
<1>4. On(w, Known) /\ AsSized(k, w) /\ w.pc = "await" /\ w.batches = k.batches /\ w.doomed = k.doomed
  BY <1>1 DEF On, Known, AsSized, PoolPlaces
<1> HIDE DEF w, z, e
<1>5. Sized(inst, z, p) /\ Sized(inst, e, p) /\ Sized(inst, w, p)
  BY <1>1, <1>3, <1>4, StaysSized
<1>6. Sized(inst, Waited(t), p)
  <2> DEFINE at == IF w.batches # <<>> THEN "run"
                   ELSE IF w.doomed # <<>> THEN "terminate" ELSE "recount"
  <2>1. \/ Waited(t) = w
        \/ Waited(t) = [w EXCEPT !.pc = at, !.offset = 0, !.seen = <<>>]
    BY <1>1, Zenon DEF Waited, w
  <2>2. /\ at \in {"run", "terminate", "recount"}
        /\ at = "run" => w.batches # <<>>
        /\ at = "terminate" => w.doomed # <<>>
    OBVIOUS
  <2> HIDE DEF at
  <2>3. Sized(inst, [w EXCEPT !.pc = at, !.offset = 0, !.seen = <<>>], p)
    <3> DEFINE l == [w EXCEPT !.pc = at, !.offset = 0, !.seen = <<>>]
    <3>1. /\ On(l, Known) /\ l.pc = at /\ l.batches = w.batches /\ l.doomed = w.doomed
          /\ l.seen = <<>> /\ l.offset = 0
      BY <1>4 DEF On, Known
    <3> HIDE DEF l
    <3>2. Marked(inst, l, p)
      BY <1>5, <2>2, <3>1 DEF Sized, Marked
    <3>3. Tallied(inst, l.seen, l.offset)
      BY <1>1, <3>1, NothingSeen
    <3>4. Sized(inst, l, p)
      BY <2>2, <3>1, <3>2, <3>3 DEF Sized, ForPool, PoolPlaces
    <3> QED BY <3>4 DEF l
  <2> QED BY <1>5, <2>1, <2>3
<1> QED BY <1>2, <1>5, <1>6, PoolRead

\* Steps of a task that leave the account alone.
LEMMA QuietWent ==
  ASSUME Pooled, NEW t \in Tasks, inst' = inst, NEW l, Set(t, l), On(l, Known), AsSized(task[t], l)
  PROVE  Went(t)
<1>1. On(task, Tasks) /\ Rowed(inst) /\ InLine(inst) /\ Sized(inst, task[t], params[t])
  BY DEF Pooled
<1>2. task'[t] = l /\ On(task', Tasks) /\ \A u \in Tasks \ {t} : task'[u] = task[u]
  BY <1>1 DEF Set, On
<1>3. Sized(inst, l, params[t])
  BY <1>1, StaysSized
<1>4. Turns(inst, inst', params[t])
  BY <1>1, Rests
<1> QED BY <1>2, <1>3, <1>4 DEF Went

LEMMA PoolWent ==
  ASSUME Pooled, AllPool, NEW t \in Tasks, Step(t)
  PROVE  Went(t)
<1>1. On(task[t], Known) /\ task[t].pc \in PoolPlaces /\ params[t].kind = "pool"
  BY DEF Pooled, Sized, ForPool, AllPool
<1>2. ~Find(t) /\ ~Create(t) /\ ~Power(t) /\ ~Delete(t) /\ ~Write(t) /\ ~Refind(t)
  BY <1>1 DEF PoolPlaces, Find, Create, Power, Delete, Write, Refind
<1>3. CASE Start(t)
  <2> DEFINE a == At(t, "count")
  <2>1. On(a, Known) /\ AsSized(task[t], a)
    BY <1>1 DEF At, On, Known, AsSized, PoolPlaces
  <2>2. PICK c : Set(t, [a EXCEPT !.clean = c])
    BY <1>1, <1>3 DEF Start
  <2> HIDE DEF a
  <2> DEFINE l == [a EXCEPT !.clean = c]
  <2>3. On(l, Known) /\ AsSized(task[t], l)
    BY <2>1 DEF On, Known, AsSized
  <2>4. inst' = inst
    BY <1>3 DEF Start
  <2> HIDE DEF l
  <2> QED BY <2>2, <2>3, <2>4, QuietWent DEF l
<1>4. CASE TimeOut(t)
  <2> DEFINE l == EndedAs(t, "failed")
  <2>1. On(l, Known) /\ AsSized(task[t], l)
    BY <1>1 DEF EndedAs, On, Known, AsSized, PoolPlaces
  <2>2. inst' = inst /\ Set(t, l)
    BY <1>4 DEF TimeOut
  <2> HIDE DEF l
  <2> QED BY <2>1, <2>2, QuietWent
<1> QED BY <1>2, <1>3, <1>4, PageWent, RunBatchWent, TerminateWent, PollWent DEF Step

-----------------------------------------------------------------------------
(* The invariant, and what it says of those that serve.                    *)

LEMMA PInvInit == OrderlyAccounts /\ CvmInit => PInv
<1> SUFFICES ASSUME OrderlyAccounts, CvmInit PROVE Pooled
  BY DEF PInv
<1>1. PICK s \in Scenarios : params = s.asks /\ inst = s.account
  BY DEF CvmInit
<1>2. s \in [asks : [Tasks -> Param], account : [Ids -> Inst]] /\ Orderly(inst)
  BY <1>1, CvmAssumption DEF OrderlyAccounts
<1>3. params \in [Tasks -> Param] /\ inst \in [Ids -> Inst]
  BY <1>1, <1>2
<1>4. task = [t \in Tasks |-> Begun] /\ start = Serving
  BY DEF CvmInit
<1>5. Rowed(inst)
  <2>1. \A i \in Ids : On(inst[i], Columns)
    BY <1>3 DEF Inst, On, Columns
  <2> QED BY <1>3, <2>1 DEF Rowed, On
<1>6. InLine(inst)
  BY <1>2 DEF Orderly
<1>7. \A i \in Ever(inst) : inst[i].state \notin Out
  BY <1>2 DEF Orderly
<1>8. start \subseteq Ever(inst)
  BY <1>4 DEF Serving, Pool, Listed, Ever
<1>9. ASSUME NEW t \in Tasks PROVE Sized(inst, task[t], params[t])
  <2> DEFINE k == task[t]
  <2>1. k = Begun
    BY <1>4
  <2> HIDE DEF k
  <2>2. /\ On(k, Known) /\ k.pc = "start" /\ k.seen = <<>> /\ k.offset = 0
        /\ k.batches = <<>> /\ k.doomed = <<>>
    BY <2>1 DEF Begun, On, Known
  <2>3. Tallied(inst, k.seen, k.offset)
    BY <1>6, <2>2, NothingSeen
  <2>4. Marked(inst, k, params[t])
    BY <2>2 DEF Marked
  <2>5. Sized(inst, k, params[t])
    BY <2>2, <2>3, <2>4 DEF Sized, ForPool, PoolPlaces
  <2> QED BY <2>5 DEF k
<1>10. On(task, Tasks)
  BY <1>4 DEF On
<1> QED BY <1>3, <1>5, <1>6, <1>7, <1>8, <1>9, <1>10 DEF Pooled

\* A step of the account and of one task, or of the account alone.
LEMMA PooledNext ==
  ASSUME Pooled, params' = params, start' = start, On(task', Tasks),
         \A u \in Tasks : Sized(inst, task'[u], params[u]),
         NEW b, inst' = b, Rowed(b), NEW New, Follows(inst, b, New),
         \A i \in Ever(b) : b[i].state \in Out =>
           i \in Ever(inst) /\ (inst[i].state \in Out \/ Spared(i))
  PROVE  Pooled'
<1>1. /\ params \in [Tasks -> Param] /\ \A i \in Ever(inst) : inst[i].state \in Out => Spared(i)
      /\ start \subseteq Ever(inst) /\ InLine(inst)
  BY DEF Pooled
<1>2. InLine(b) /\ Ever(b) = Ever(inst) \cup New
  BY DEF Follows
<1>3. \A u \in Tasks : params[u].count \in Nat
  BY <1>1 DEF Param
<1>4. ASSUME NEW u \in Tasks PROVE Sized(b, task'[u], params[u])
  BY <1>3, SizedFollows
<1>5. ASSUME NEW i \in Ever(b), b[i].state \in Out
      PROVE  \E t \in Tasks : params[t].count <= Cardinality(Younger(b, i))
  <2>1. i \in Ever(inst) /\ Spared(i)
    BY <1>1, <1>5
  <2>2. PICK t \in Tasks : params[t].count <= Cardinality(Younger(inst, i))
    BY <2>1 DEF Spared
  <2>3. /\ Cardinality(New) \in Nat
        /\ Cardinality(Younger(b, i)) = Cardinality(Younger(inst, i)) + Cardinality(New)
    BY <2>1, AgesFollow
  <2>4. Cardinality(Younger(inst, i)) \in Nat
    <3>1. Younger(inst, i) \in SUBSET Ever(inst)
      BY <1>1, <2>1, AgesAre
    <3> QED BY <3>1, EverFinite
  <2>5. params[t].count <= Cardinality(Younger(b, i))
    BY <1>3, <2>2, <2>3, <2>4
  <2> QED BY <2>5
<1>6. Pooled' <=> /\ params' \in [Tasks -> Param] /\ On(task', Tasks) /\ Rowed(inst') /\ InLine(inst')
                  /\ \A t \in Tasks : Sized(inst', task'[t], params'[t])
                  /\ \A i \in Ever(inst') : inst'[i].state \in Out =>
                       \E t \in Tasks : params'[t].count <= Cardinality(Younger(inst', i))
                  /\ start' \subseteq Ever(inst')
  BY DEF Pooled, Spared
<1> QED BY <1>1, <1>2, <1>4, <1>5, <1>6

LEMMA PInvNext == PInv /\ [CvmNext]_cvmVars => PInv'
<1> SUFFICES ASSUME PInv, [CvmNext]_cvmVars, AllPool' PROVE Pooled'
  BY DEF PInv
<1>1. params' = params /\ start' = start
  <2>1. ASSUME NEW t \in Tasks, Step(t) PROVE params' = params /\ start' = start
    BY <2>1 DEF Step, Start, Page, RunBatch, TerminateOldest, Poll, TimeOut, Find, Create,
                Power, Delete, Write, Refind, Read, Call
  <2>2. ASSUME NEW i \in Ids, Settle(i) PROVE params' = params /\ start' = start
    BY <2>2 DEF Settle
  <2>3. CASE UNCHANGED cvmVars
    BY <2>3 DEF cvmVars
  <2> QED BY <2>1, <2>2, <2>3 DEF CvmNext
<1>2. AllPool /\ Pooled
  BY <1>1 DEF AllPool, PInv
<1>3. /\ params \in [Tasks -> Param] /\ On(task, Tasks) /\ Rowed(inst) /\ InLine(inst)
      /\ \A u \in Tasks : Sized(inst, task[u], params[u])
      /\ \A i \in Ever(inst) : inst[i].state \in Out => Spared(i)
  BY <1>2 DEF Pooled
<1>4. ASSUME NEW t \in Tasks, Step(t) PROVE Pooled'
  <2>1. Went(t)
    BY <1>2, <1>4, PoolWent
  <2>2. /\ On(task', Tasks) /\ \A u \in Tasks : Sized(inst, task'[u], params[u])
    BY <1>3, <2>1 DEF Went
  <2>3. PICK b : b = inst'
    OBVIOUS
  <2>4. Turns(inst, b, params[t])
    BY <2>1, <2>3 DEF Went
  <2>5. PICK New : Follows(inst, b, New)
    BY <2>4 DEF Turns
  <2>6. \A i \in Ever(b) : b[i].state \in Out =>
          i \in Ever(inst) /\ (inst[i].state \in Out \/ Spared(i))
    BY <2>4 DEF Turns, Spared
  <2>7. Rowed(b)
    BY <2>4 DEF Turns
  <2> QED BY <1>1, <1>2, <2>2, <2>3, <2>5, <2>6, <2>7, PooledNext
<1>5. ASSUME NEW i \in Ids, Settle(i) PROVE Pooled'
  <2>1. PICK b : b = inst'
    OBVIOUS
  <2>2. PICK p : p = params
    OBVIOUS
  <2>3. /\ Turns(inst, inst', p)
        /\ \A j \in Ever(inst') : inst'[j].state \in Out => inst[j].state \in Out
    BY <1>3, <1>5, SettleTurns
  <2>4. Turns(inst, b, p) /\ \A j \in Ever(b) : b[j].state \in Out => inst[j].state \in Out
    BY <2>1, <2>3
  <2>5. PICK New : Follows(inst, b, New)
    BY <2>4 DEF Turns
  <2>6. \A j \in Ever(b) : b[j].state \in Out =>
          j \in Ever(inst) /\ (inst[j].state \in Out \/ Spared(j))
    BY <2>4 DEF Turns
  <2>7. task' = task /\ Rowed(b)
    BY <1>5, <2>4 DEF Settle, Turns
  <2>8. On(task', Tasks) /\ \A u \in Tasks : Sized(inst, task'[u], params[u])
    BY <1>3, <2>7
  <2> QED BY <1>1, <1>2, <2>1, <2>5, <2>6, <2>7, <2>8, PooledNext
<1>6. CASE UNCHANGED cvmVars
  <2>1. params' = params /\ inst' = inst /\ task' = task /\ start' = start
    BY <1>6 DEF cvmVars
  <2>2. SameMembers(inst, inst)
    BY DEF SameMembers
  <2>3. Follows(inst, inst, {})
    BY <1>3, <2>2, SameFollows
  <2>4. On(task', Tasks) /\ \A u \in Tasks : Sized(inst, task'[u], params[u])
    BY <1>3, <2>1
  <2> QED BY <1>2, <1>3, <2>1, <2>3, <2>4, PooledNext
<1> QED BY <1>4, <1>5, <1>6 DEF CvmNext

\* Of those on their way out, the youngest: all that are younger than it serve.
LEMMA YoungestOut ==
  ASSUME InLine(inst), NEW X \in SUBSET Ever(inst), X # {}
  PROVE  \E d \in X : Younger(inst, d) \cap X = {}
<1> DEFINE r(d) == Cardinality(Younger(inst, d)) + 1
           T == {r(d) : d \in X}
           N == Cardinality(Ever(inst)) + 1
<1>1. /\ Cardinality(Ever(inst)) \in Nat
      /\ \A d \in Ever(inst) : /\ Younger(inst, d) \in SUBSET Ever(inst)
                               /\ IsFiniteSet(Younger(inst, d))
                               /\ Cardinality(Younger(inst, d)) \in Nat
                               /\ Cardinality(Younger(inst, d)) <= Cardinality(Ever(inst))
  <2>1. Ever(inst) \in SUBSET Ever(inst)
    OBVIOUS
  <2> QED BY <2>1, AgesAre, EverFinite
<1>2. N \in Nat /\ T \in SUBSET (1 .. N) /\ T # {}
  BY <1>1
<1>3. PICK m \in T : \A j \in T : m <= j
  <2> HIDE DEF T, N
  <2> QED BY <1>2, LeastIs
<1>4. PICK d \in X : m = r(d)
  OBVIOUS
<1>5. ASSUME NEW e \in Younger(inst, d), e \in X PROVE FALSE
  <2>1. d \in Ever(inst) /\ e \in Ever(inst) /\ \A x \in Ever(inst) : x \in Nat /\ inst[x].batch \in Nat
    BY <1>5, EverIs DEF InLine
  <2>2. Younger(inst, e) \subseteq Younger(inst, d) /\ e \notin Younger(inst, e)
    <3>1. ASSUME NEW x PROVE x \in Younger(inst, e) => x \in Younger(inst, d)
      BY <2>1 DEF Younger, Later, Beside
    <3>2. e \notin Younger(inst, e)
      BY <2>1 DEF Younger, Later, Beside
    <3> QED BY <3>1, <3>2
  <2>3. Cardinality(Younger(inst, e)) <= Cardinality(Younger(inst, d))
        /\ Cardinality(Younger(inst, e)) # Cardinality(Younger(inst, d))
    BY <1>1, <2>1, <2>2, FS_Subset
  <2>4. r(d) <= r(e)
    BY <1>3, <1>4, <1>5
  <2> QED BY <1>1, <2>1, <2>3, <2>4
<1> QED BY <1>5

LEMMA PInvTells == PInv => NeverBelowTarget
<1> SUFFICES ASSUME PInv, \A t \in Tasks : params[t].kind = "pool"
             PROVE  \/ Cardinality(Serving) >= Cardinality(start)
                    \/ \E t \in Tasks : Cardinality(Serving) >= params[t].count
  BY DEF NeverBelowTarget
<1>1. Pooled
  BY DEF PInv, AllPool
<1>2. /\ InLine(inst) /\ start \subseteq Ever(inst) /\ params \in [Tasks -> Param]
      /\ \A i \in Ever(inst) : inst[i].state \in Out => Spared(i)
  BY <1>1 DEF Pooled
<1> DEFINE X == {i \in Ever(inst) : inst[i].state \in Out}
<1>3. Serving \in SUBSET Ever(inst) /\ \A i \in Ever(inst) \ X : i \in Serving
  BY DEF Serving, Pool, Listed, Ever, Out
<1>4. CASE X = {}
  <2>1. start \in SUBSET Serving
    BY <1>2, <1>3, <1>4
  <2>2. Cardinality(start) <= Cardinality(Serving) /\ Cardinality(Serving) \in Nat
        /\ Cardinality(start) \in Nat
    <3>1. start \in SUBSET Ever(inst)
      BY <1>2
    <3> QED BY <1>3, <2>1, <3>1, EverFinite
  <2> QED BY <2>2
<1>5. CASE X # {}
  <2>1. PICK d \in X : Younger(inst, d) \cap X = {}
    <3>1. X \in SUBSET Ever(inst)
      OBVIOUS
    <3> HIDE DEF X
    <3> QED BY <1>2, <1>5, <3>1, YoungestOut
  <2>2. PICK t \in Tasks : params[t].count <= Cardinality(Younger(inst, d))
    BY <1>2 DEF Spared
  <2>3. Younger(inst, d) \in SUBSET Ever(inst)
    BY <1>2, AgesAre
  <2>4. Younger(inst, d) \in SUBSET Serving
    BY <1>3, <2>1, <2>3
  <2>5. /\ Cardinality(Younger(inst, d)) <= Cardinality(Serving)
        /\ Cardinality(Younger(inst, d)) \in Nat /\ Cardinality(Serving) \in Nat
    BY <1>3, <2>3, <2>4, EverFinite
  <2>6. params[t].count \in Nat
    BY <1>2 DEF Param
  <2>7. Cardinality(Serving) >= params[t].count
    BY <2>2, <2>5, <2>6
  <2> QED BY <2>7
<1> QED BY <1>4, <1>5

THEOREM NeverBelowTargetAlways == OrderlyAccounts /\ CvmSpec => []NeverBelowTarget
<1>1. OrderlyAccounts /\ CvmInit => PInv
  BY PInvInit
<1>2. PInv /\ [CvmNext]_cvmVars => PInv'
  BY PInvNext
<1>3. PInv => NeverBelowTarget
  BY PInvTells
<1> QED BY <1>1, <1>2, <1>3, PTL DEF CvmSpec

-----------------------------------------------------------------------------
(***************************************************************************)
(* A task that has the pool to itself: its walk is exact, because nobody   *)
(* leaves the list meanwhile.                                              *)
(***************************************************************************)

\* The members that leave, those that stay, and all of them as Pool has them.
Leaving(a) == {i \in Ids : a[i].pool /\ a[i].state \in {"TERMINATING", "TERMINATED"}}
Staying(a) == {i \in OnList(a) : a[i].state \notin {"TERMINATING", "TERMINATED"}}
Belonging(a) == {i \in OnList(a) : a[i].state # "TERMINATED"}

\* The first o of the list.
Top(a, o) == {i \in OnList(a) : RankIn(OnList(a), i) <= o}

\* The walk has met what comes before its offset, everyone once.
Walked(a, k) ==
  /\ k.offset \in Nat /\ k.seen \in Seq(Ids) /\ ToSet(k.seen) = Top(a, k.offset)
  /\ Len(k.seen) = Cardinality(Top(a, k.offset))

LEMMA MembersAre ==
  /\ Pool = Belonging(inst) /\ Serving = Staying(inst)
  /\ \A a : /\ Leaving(a) = {} => Belonging(a) = OnList(a) /\ Staying(a) = OnList(a)
            /\ OnList(a) \in SUBSET Ids /\ Staying(a) \in SUBSET Ids
BY DEF Pool, Serving, Listed, Belonging, Staying, Leaving, OnList

LEMMA IdsFinite ==
  /\ Ids = 1 .. MaxId /\ MaxId \in Nat
  /\ \A S \in SUBSET Ids : /\ IsFiniteSet(S) /\ Cardinality(S) \in Nat
                           /\ \A T \in SUBSET S : /\ Cardinality(T) <= Cardinality(S)
                                                  /\ Cardinality(T) \in Nat
                                                  /\ Cardinality(T) = Cardinality(S) => T = S
<1>1. Ids = 1 .. MaxId /\ MaxId \in Nat
  BY CvmAssumption DEF Ids
<1>2. ASSUME NEW S \in SUBSET (1 .. MaxId), NEW T \in SUBSET S
      PROVE  /\ IsFiniteSet(S) /\ Cardinality(S) \in Nat
             /\ Cardinality(T) <= Cardinality(S) /\ Cardinality(T) \in Nat
             /\ Cardinality(T) = Cardinality(S) => T = S
  <2>1. IsFiniteSet(S) /\ Cardinality(S) \in Nat /\ Cardinality(T) <= Cardinality(S)
        /\ Cardinality(T) \in Nat
    BY <1>1, PartsFinite
  <2> QED BY <2>1, FS_Subset
<1>3. \A S \in SUBSET (1 .. MaxId) : S \in SUBSET S
  OBVIOUS
<1> QED BY <1>1, <1>2, <1>3

\* A page is what the list has past the offset.
LEMMA PageIs ==
  ASSUME NEW o \in Nat
  PROVE  LET S == OnList(inst)
             g == PageAt(o)
         IN  /\ Len(Listing) = Cardinality(S) /\ Len(g) \in Nat
             /\ ToSet(g) = {i \in S : o < RankIn(S, i) /\ RankIn(S, i) <= o + Len(g)}
             /\ g = <<>> => Cardinality(S) <= o
<1> DEFINE S == OnList(inst)
           L == Listing
           rest == Len(L) - o
           w == IF rest < Limit THEN rest ELSE Limit
           g == PageAt(o)
<1>1. S \in SUBSET (1 .. MaxId) /\ MaxId \in Nat /\ Limit \in Nat /\ Limit # 0
  BY EverIs, CvmAssumption
<1>2. L = NewestFirst(S)
  BY DEF Listing, OnList, Listed
<1>3. /\ L \in Seq(S) /\ Len(L) = Cardinality(S)
      /\ \A m \in 1 .. Cardinality(S) : L[m] \in S /\ RankIn(S, L[m]) = m
  BY <1>1, <1>2, NewestFirstIs
<1>4. g = IF rest <= 0 THEN <<>> ELSE SubSeq(L, o + 1, o + w)
  BY DEF PageAt
<1>5. ASSUME NEW i \in S PROVE RankIn(S, i) \in 1 .. Len(L) /\ RankIn(S, i) \in Nat
  <2> HIDE DEF S
  <2> QED BY <1>1, <1>3, RankRange
<1>6. ASSUME NEW i \in S, NEW j \in S, RankIn(S, i) = RankIn(S, j) PROVE i = j
  <2> HIDE DEF S
  <2> QED BY <1>1, <1>6, RankTells
<1> HIDE DEF S, L, w, g
<1>7. Len(L) \in Nat /\ \A m \in 1 .. Len(L) : L[m] \in S /\ RankIn(S, L[m]) = m
  BY <1>3
<1>8. CASE rest <= 0
  <2>1. g = <<>> /\ Len(g) = 0 /\ ToSet(g) = {}
    BY <1>4, <1>8 DEF ToSet
  <2>2. Cardinality(S) <= o
    BY <1>3, <1>7, <1>8
  <2>3. \A i \in S : ~(o < RankIn(S, i))
    BY <1>5, <1>7, <1>8
  <2>4. ToSet(g) = {i \in S : o < RankIn(S, i) /\ RankIn(S, i) <= o + Len(g)}
    BY <2>1, <2>3
  <2> QED BY <1>3, <2>1, <2>2, <2>4 DEF S, L, g
<1>9. CASE ~(rest <= 0)
  <2>1. g = SubSeq(L, o + 1, o + w)
    BY <1>4, <1>9
  <2>2. w \in Nat /\ w # 0 /\ o + w <= Len(L)
    BY <1>1, <1>7, <1>9 DEF w
  <2>3. Len(g) = w /\ DOMAIN g = 1 .. w /\ \A m \in 1 .. w : g[m] = L[o + m]
    BY <1>3, <1>7, <2>1, <2>2
  <2>4. ASSUME NEW i \in ToSet(g)
        PROVE  i \in S /\ o < RankIn(S, i) /\ RankIn(S, i) <= o + w
    <3>1. PICK m \in 1 .. w : i = g[m]
      BY <2>3 DEF ToSet
    <3>2. o + m \in 1 .. Len(L) /\ o < o + m /\ o + m <= o + w
      BY <1>7, <2>2
    <3> QED BY <1>7, <2>3, <3>1, <3>2
  <2>5. ASSUME NEW i \in S, o < RankIn(S, i), RankIn(S, i) <= o + w
        PROVE  i \in ToSet(g)
    <3> DEFINE m == RankIn(S, i) - o
    <3>1. m \in 1 .. w /\ o + m = RankIn(S, i)
      BY <1>5, <2>2, <2>5
    <3> HIDE DEF m
    <3>2. g[m] = L[o + m] /\ o + m \in 1 .. Len(L)
      BY <1>5, <2>3, <3>1
    <3>3. g[m] = i
      BY <1>6, <1>7, <3>1, <3>2
    <3> QED BY <2>3, <3>1, <3>3 DEF ToSet
  <2>6. ToSet(g) = {i \in S : o < RankIn(S, i) /\ RankIn(S, i) <= o + Len(g)}
    BY <2>3, <2>4, <2>5
  <2>7. g # <<>>
    BY <2>2, <2>3
  <2> QED BY <1>3, <2>2, <2>3, <2>6, <2>7 DEF S, L, g
<1> QED BY <1>8, <1>9

\* NewestFirst lists a set.
LEMMA NewestFirstHas ==
  ASSUME NEW S \in SUBSET Ids
  PROVE  /\ NewestFirst(S) \in Seq(Ids) /\ ToSet(NewestFirst(S)) = S
         /\ Len(NewestFirst(S)) = Cardinality(S)
<1> DEFINE q == NewestFirst(S)
<1>1. S \in SUBSET (1 .. MaxId) /\ MaxId \in Nat
  BY IdsFinite
<1>2. /\ q \in Seq(S) /\ Len(q) = Cardinality(S)
      /\ \A m \in 1 .. Cardinality(S) : q[m] \in S /\ RankIn(S, q[m]) = m
  BY <1>1, NewestFirstIs
<1> HIDE DEF q
<1>3. DOMAIN q = 1 .. Cardinality(S)
  BY <1>2
<1>4. ASSUME NEW i \in S PROVE i \in ToSet(q)
  <2>1. RankIn(S, i) \in 1 .. Cardinality(S)
    BY <1>1, RankRange
  <2>2. q[RankIn(S, i)] = i
    BY <1>1, <1>2, <2>1, RankTells
  <2> QED BY <1>3, <2>1, <2>2 DEF ToSet
<1>5. ToSet(q) = S
  BY <1>2, <1>3, <1>4 DEF ToSet
<1>6. q \in Seq(Ids)
  BY <1>2
<1> QED BY <1>2, <1>5, <1>6 DEF q

LEMMA ToSetBoth ==
  ASSUME NEW S, NEW a \in Seq(S), NEW b \in Seq(S)
  PROVE  ToSet(a \o b) = ToSet(a) \cup ToSet(b)
<1>1. /\ Len(a) \in Nat /\ Len(b) \in Nat /\ DOMAIN a = 1 .. Len(a) /\ DOMAIN b = 1 .. Len(b)
      /\ DOMAIN (a \o b) = 1 .. (Len(a) + Len(b))
      /\ \A m \in 1 .. (Len(a) + Len(b)) :
           (a \o b)[m] = IF m <= Len(a) THEN a[m] ELSE b[m - Len(a)]
  OBVIOUS
<1>2. ToSet(a) \subseteq ToSet(a \o b) /\ ToSet(b) \subseteq ToSet(a \o b)
  BY ToSetConcat
<1>3. ASSUME NEW m \in 1 .. (Len(a) + Len(b)) PROVE (a \o b)[m] \in ToSet(a) \cup ToSet(b)
  <2>1. CASE m <= Len(a)
    <3>1. m \in DOMAIN a /\ (a \o b)[m] = a[m]
      BY <1>1, <2>1
    <3> QED BY <3>1 DEF ToSet
  <2>2. CASE ~(m <= Len(a))
    <3>1. m - Len(a) \in DOMAIN b /\ (a \o b)[m] = b[m - Len(a)]
      BY <1>1, <2>2
    <3> QED BY <3>1 DEF ToSet
  <2> QED BY <2>1, <2>2
<1>4. ASSUME NEW x \in ToSet(a \o b) PROVE x \in ToSet(a) \cup ToSet(b)
  <2>1. PICK m \in 1 .. (Len(a) + Len(b)) : x = (a \o b)[m]
    BY <1>1 DEF ToSet
  <2> QED BY <1>3, <2>1
<1> QED BY <1>2, <1>4

\* One more page, and what the walk has met when it ends.
LEMMA WalksOn ==
  ASSUME Leaving(inst) = {}, NEW k, Walked(inst, k)
  PROVE  LET rows == PageAt(k.offset)
             o == k.offset + Len(rows)
             s == k.seen \o NewestFirst(ToSet(rows) \cap Pool)
         IN  /\ o \in Nat /\ s \in Seq(Ids) /\ ToSet(s) = Top(inst, o)
             /\ Len(s) = Cardinality(Top(inst, o))
             /\ rows = <<>> \/ o >= Len(Listing) \/ Len(s) >= Len(Listing) =>
                  Top(inst, o) = OnList(inst)
<1> DEFINE S == OnList(inst)
           rows == PageAt(k.offset)
           o == k.offset + Len(rows)
           X == ToSet(rows)
           q == NewestFirst(X)
           s == k.seen \o q
<1>1. /\ k.offset \in Nat /\ k.seen \in Seq(Ids) /\ ToSet(k.seen) = Top(inst, k.offset)
      /\ Len(k.seen) = Cardinality(Top(inst, k.offset))
  BY DEF Walked
<1>2. /\ Len(Listing) = Cardinality(S) /\ Len(rows) \in Nat
      /\ X = {i \in S : k.offset < RankIn(S, i) /\ RankIn(S, i) <= o}
      /\ rows = <<>> => Cardinality(S) <= k.offset
  BY <1>1, PageIs
<1>3. /\ S \in SUBSET Ids /\ S \in SUBSET (1 .. MaxId) /\ MaxId \in Nat
      /\ Pool = S /\ X \cap Pool = X /\ X \in SUBSET Ids
  BY <1>2, MembersAre, EverIs
<1>4. \A i \in S : RankIn(S, i) \in Nat /\ RankIn(S, i) <= Cardinality(S)
  <2> SUFFICES ASSUME NEW i \in S PROVE RankIn(S, i) \in Nat /\ RankIn(S, i) \in 1 .. Cardinality(S)
    BY <1>3, IdsFinite
  <2> HIDE DEF S
  <2> QED BY <1>3, RankRange
<1>5. q \in Seq(Ids) /\ ToSet(q) = X /\ Len(q) = Cardinality(X)
  BY <1>3, NewestFirstHas
<1>6. Top(inst, o) = Top(inst, k.offset) \cup X /\ Top(inst, k.offset) \cap X = {}
  <2>1. Top(inst, o) = {i \in S : RankIn(S, i) <= o}
        /\ Top(inst, k.offset) = {i \in S : RankIn(S, i) <= k.offset}
    BY DEF Top
  <2> HIDE DEF S, X
  <2>2. k.offset <= o /\ o \in Nat
    BY <1>1, <1>2
  <2> HIDE DEF o
  <2> QED BY <1>1, <1>2, <1>4, <2>1, <2>2
<1>7. Top(inst, o) \in SUBSET S /\ Top(inst, k.offset) \in SUBSET Ids
  BY <1>3 DEF Top
<1> HIDE DEF S, X, q, rows
<1>8. Cardinality(Top(inst, o)) = Cardinality(Top(inst, k.offset)) + Cardinality(X)
  <2>1. IsFiniteSet(X) /\ IsFiniteSet(Top(inst, k.offset))
        /\ Cardinality(X) \in Nat /\ Cardinality(Top(inst, k.offset)) \in Nat
    BY <1>3, <1>7, IdsFinite
  <2>2. Cardinality({}) = 0
    BY FS_EmptySet
  <2>3. Cardinality(Top(inst, k.offset) \cup X) =
          Cardinality(Top(inst, k.offset)) + Cardinality(X) - Cardinality(Top(inst, k.offset) \cap X)
    BY <2>1, FS_Union
  <2>4. Cardinality(Top(inst, k.offset) \cap X) = 0
    BY <1>6, <2>2
  <2>5. Cardinality(Top(inst, o)) = Cardinality(Top(inst, k.offset)) + Cardinality(X) - 0
    BY <1>6, <2>3, <2>4
  <2> QED BY <2>1, <2>5
<1>9. s \in Seq(Ids) /\ ToSet(s) = Top(inst, o) /\ Len(s) = Cardinality(Top(inst, o)) /\ o \in Nat
  <2>1. s \in Seq(Ids) /\ Len(s) = Len(k.seen) + Len(q)
    BY <1>1, <1>5
  <2>2. ToSet(s) = ToSet(k.seen) \cup ToSet(q)
    BY <1>1, <1>5, ToSetBoth
  <2>3. o \in Nat
    BY <1>1, <1>2
  <2> QED BY <1>1, <1>5, <1>6, <1>8, <2>1, <2>2, <2>3
<1>10. ASSUME rows = <<>> \/ o >= Len(Listing) \/ Len(s) >= Len(Listing)
       PROVE  Top(inst, o) = S
  <2>1. CASE rows = <<>> \/ o >= Len(Listing)
    <3>1. Cardinality(S) <= o
      <4>1. Cardinality(S) \in Nat
        BY <1>3, IdsFinite
      <4> QED BY <1>1, <1>2, <2>1, <4>1
    <3>2. \A i \in S : RankIn(S, i) <= o
      <4>1. Cardinality(S) \in Nat
        BY <1>3, IdsFinite
      <4> QED BY <1>4, <1>9, <3>1, <4>1
    <3> QED BY <3>2 DEF Top, S
  <2>2. CASE Len(s) >= Len(Listing)
    <3>1. /\ Cardinality(Top(inst, o)) <= Cardinality(S) /\ Cardinality(S) \in Nat
          /\ Cardinality(Top(inst, o)) \in Nat
          /\ Cardinality(Top(inst, o)) = Cardinality(S) => Top(inst, o) = S
      BY <1>3, <1>7, IdsFinite
    <3> QED BY <1>2, <1>9, <2>2, <3>1
  <2> QED BY <1>10, <2>1, <2>2
<1> QED BY <1>3, <1>9, <1>10 DEF S, X, q, rows

-----------------------------------------------------------------------------
(* What it decides.                                                        *)

\* The batches of b are n instances in all: e batches of one more than q, then f of q.
Holds(b, n) ==
  \E q, e, f \in Nat :
    /\ Len(b) = e + f /\ n = e * (q + 1) + f * q
    /\ \A z \in 1 .. e : b[z] = q + 1
    /\ \A z \in e + 1 .. e + f : b[z] = q

LEMMA HoldsNone ==
  ASSUME NEW n, Holds(<<>>, n)
  PROVE  n = 0
<1>1. PICK q, e, f \in Nat : Len(<<>>) = e + f /\ n = e * (q + 1) + f * q
  BY DEF Holds
<1>2. e = 0 /\ f = 0
  BY <1>1
<1> QED BY <1>1, <1>2

LEMMA HoldsTail ==
  ASSUME NEW b \in Seq(Nat), b # <<>>, NEW n, Holds(b, n)
  PROVE  Holds(Tail(b), n - Head(b))
<1>1. PICK q, e, f \in Nat : /\ Len(b) = e + f /\ n = e * (q + 1) + f * q
                             /\ \A z \in 1 .. e : b[z] = q + 1
                             /\ \A z \in e + 1 .. e + f : b[z] = q
  BY DEF Holds
<1>2. /\ Len(b) \in Nat /\ Len(b) # 0 /\ Len(Tail(b)) = Len(b) - 1 /\ Head(b) = b[1]
      /\ \A z \in 1 .. Len(b) - 1 : Tail(b)[z] = b[z + 1]
  BY EmptySeq
<1>3. CASE e # 0
  <2> DEFINE d == e - 1
  <2>1. d \in Nat /\ Len(Tail(b)) = d + f /\ e = d + 1
    BY <1>1, <1>2, <1>3
  <2>2. Head(b) = q + 1
    BY <1>1, <1>2, <1>3
  <2>3. \A z \in 1 .. d : z + 1 \in 1 .. e /\ Tail(b)[z] = b[z + 1]
    BY <1>1, <1>2, <2>1
  <2>4. \A z \in d + 1 .. d + f : z + 1 \in e + 1 .. e + f /\ Tail(b)[z] = b[z + 1]
    BY <1>1, <1>2, <2>1
  <2>5. n - Head(b) = d * (q + 1) + f * q
    <3>1. (d + 1) * (q + 1) = d * (q + 1) + (q + 1)
      BY <2>1
    <3>2. n = (d + 1) * (q + 1) + f * q
      BY <1>1, <2>1
    <3>3. d * (q + 1) \in Nat /\ f * q \in Nat
      BY <2>1
    <3> HIDE DEF d
    <3> QED BY <2>2, <3>1, <3>2, <3>3
  <2> HIDE DEF d
  <2>6. \A z \in 1 .. d : Tail(b)[z] = q + 1
    BY <1>1, <2>3
  <2>7. \A z \in d + 1 .. d + f : Tail(b)[z] = q
    BY <1>1, <2>4
  <2> QED BY <2>1, <2>5, <2>6, <2>7 DEF Holds
<1>4. CASE e = 0
  <2> DEFINE d == f - 1
  <2>1. d \in Nat /\ Len(Tail(b)) = d /\ f = d + 1
    BY <1>1, <1>2, <1>4
  <2>2. Head(b) = q
    BY <1>1, <1>2, <1>4
  <2>3. \A z \in 1 .. d : z + 1 \in e + 1 .. e + f /\ Tail(b)[z] = b[z + 1]
    BY <1>1, <1>2, <1>4, <2>1
  <2>4. n - Head(b) = d * q
    <3>1. (d + 1) * q = d * q + q
      BY <2>1
    <3>2. n = (d + 1) * q
      BY <1>1, <1>4, <2>1
    <3>3. d * q \in Nat
      BY <2>1
    <3> HIDE DEF d
    <3> QED BY <2>2, <3>1, <3>2, <3>3
  <2>5. \A z \in 1 .. d : Tail(b)[z] = q
    BY <1>1, <2>3
  <2> HIDE DEF d
  <2>6. Len(Tail(b)) = 0 + d /\ n - Head(b) = 0 * (q + 1) + d * q
    BY <2>1, <2>4
  <2>7. /\ \A z \in 1 .. 0 : Tail(b)[z] = q + 1
        /\ \A z \in 0 + 1 .. 0 + d : Tail(b)[z] = q
    BY <2>1, <2>5
  <2>8. 0 \in Nat
    OBVIOUS
  <2> QED BY <2>1, <2>6, <2>7, <2>8 DEF Holds
<1> QED BY <1>1, <1>3, <1>4

\* All that are asked for are spread.
LEMMA HoldsSpread ==
  ASSUME NEW total \in Nat \ {0}, NEW zones \in Nat
  PROVE  LET counts == IF zones = 0 THEN <<total>> ELSE SpreadCounts(total, zones)
         IN  Holds(NonZero(counts), total)
<1> DEFINE counts == IF zones = 0 THEN <<total>> ELSE SpreadCounts(total, zones)
           Z == {z \in DOMAIN counts : counts[z] > 0}
           b == NonZero(counts)
<1>0. b = SubSeq(counts, 1, Cardinality(Z))
  BY DEF NonZero
<1>1. CASE zones = 0
  <2>1. counts = <<total>> /\ DOMAIN counts = 1 .. 1 /\ counts[1] = total /\ Len(counts) = 1
    BY <1>1
  <2>2. Z = {1}
    BY <2>1
  <2>3. Cardinality(Z) = 1
    BY <2>2, FS_Singleton
  <2> HIDE DEF Z, counts
  <2>4. Len(b) = 1 /\ b[1] = total
    BY <1>0, <2>1, <2>3
  <2> HIDE DEF b
  <2>5. /\ Len(b) = 0 + 1 /\ total = 0 * (total + 1) + 1 * total
        /\ \A z \in 1 .. 0 : b[z] = total + 1
        /\ \A z \in 0 + 1 .. 0 + 1 : b[z] = total
    BY <2>4
  <2>6. total \in Nat /\ 0 \in Nat /\ 1 \in Nat
    OBVIOUS
  <2>7. Holds(b, total)
    BY <2>5, <2>6 DEF Holds
  <2> QED BY <2>7 DEF b, counts
<1>2. CASE zones # 0
  <2> DEFINE q == total \div zones
             r == total % zones
  <2>1. q \in Nat /\ r \in Nat /\ r < zones /\ total = zones * q + r
    BY <1>2
  <2>2. counts = [z \in 1 .. zones |-> q + IF z <= r THEN 1 ELSE 0]
    BY <1>2 DEF SpreadCounts
  <2> HIDE DEF q, r, counts
  <2>3. /\ DOMAIN counts = 1 .. zones /\ Len(counts) = zones /\ counts \in Seq(Nat)
        /\ \A z \in 1 .. zones : counts[z] = IF z <= r THEN q + 1 ELSE q
    <3>1. \A z \in 1 .. zones : counts[z] = IF z <= r THEN q + 1 ELSE q
      BY <2>1, <2>2
    <3>2. counts \in [1 .. zones -> Nat]
      BY <2>1, <2>2, <3>1
    <3> QED BY <3>1, <3>2
  <2> DEFINE f == IF q = 0 THEN 0 ELSE zones - r
  <2>4. f \in Nat /\ r + f <= zones
    BY <2>1
  <2>5. Z = 1 .. r + f
    <3>1. CASE q = 0
      <4>1. \A z \in 1 .. zones : counts[z] > 0 <=> z <= r
        BY <2>1, <2>3, <3>1
      <4> QED BY <2>1, <2>3, <3>1, <4>1
    <3>2. CASE q # 0
      <4>1. \A z \in 1 .. zones : counts[z] > 0
        BY <2>1, <2>3, <3>2
      <4>2. r + f = zones
        BY <2>1, <3>2
      <4> HIDE DEF f
      <4> QED BY <2>3, <4>1, <4>2
    <3> QED BY <3>1, <3>2
  <2>6. total = r * (q + 1) + f * q
    <3>1. r * (q + 1) = r * q + r
      BY <2>1
    <3>2. CASE q = 0
      BY <2>1, <3>1, <3>2
    <3>3. CASE q # 0
      <4>1. f = zones - r
        BY <3>3
      <4> HIDE DEF f
      <4>2. (zones - r) * q = zones * q - r * q
        BY <2>1
      <4>3. zones * q \in Int /\ r * q \in Int
        BY <2>1
      <4> QED BY <2>1, <3>1, <4>1, <4>2, <4>3
    <3> QED BY <3>2, <3>3
  <2> HIDE DEF f, Z
  <2>7. Cardinality(Z) = r + f
    <3> DEFINE n == r + f
    <3>1. n \in Int /\ 1 \in Int /\ n >= 0
      BY <2>1, <2>4
    <3> HIDE DEF n
    <3>2. Cardinality(1 .. n) = IF 1 > n THEN 0 ELSE n - 1 + 1
      BY <3>1, FS_Interval
    <3>3. Cardinality(1 .. n) = n
      BY <3>1, <3>2
    <3> QED BY <2>5, <3>3 DEF n
  <2>8. Len(b) = r + f /\ \A z \in 1 .. r + f : b[z] = counts[z]
    BY <1>0, <2>1, <2>3, <2>4, <2>7
  <2> HIDE DEF b
  <2>9. /\ \A z \in 1 .. r : b[z] = q + 1
        /\ \A z \in r + 1 .. r + f : b[z] = q
    <3>1. ASSUME NEW z \in 1 .. r PROVE b[z] = q + 1
      <4>1. z \in 1 .. r + f /\ z \in 1 .. zones /\ z <= r
        BY <2>1, <2>4
      <4> QED BY <2>3, <2>8, <4>1
    <3>2. ASSUME NEW z \in r + 1 .. r + f PROVE b[z] = q
      <4>1. z \in 1 .. r + f /\ z \in 1 .. zones /\ ~(z <= r)
        BY <2>1, <2>4
      <4> QED BY <2>3, <2>8, <4>1
    <3> QED BY <3>1, <3>2
  <2>10. Holds(b, total)
    BY <2>1, <2>4, <2>6, <2>8, <2>9 DEF Holds
  <2> QED BY <2>10 DEF b, counts
<1> QED BY <1>1, <1>2

\* Of the first of the sorted list, each is no younger than any that is not before it.
LEMMA OldestAre ==
  ASSUME NEW S, \A i \in S : inst[i].batch \in Nat, NEW s \in Seq(S), NEW d \in 1 .. Len(s)
  PROVE  LET q == SubSeq(ByAge(s), 1, d)
         IN  /\ q \in Seq(S) /\ Len(q) = d /\ q # <<>> /\ DOMAIN q = 1 .. d
             /\ \A n \in 1 .. d, j \in ToSet(s) :
                  inst[q[n]].batch <= inst[j].batch \/ \E m \in 1 .. d : m < n /\ q[m] = j
<1> DEFINE b == ByAge(s)
           q == SubSeq(b, 1, d)
           c(n) == Cardinality(UpTo(s, n))
<1>1. /\ b \in Seq(S) /\ Len(b) = Len(s) /\ DOMAIN s = 1 .. Len(s) /\ Len(s) \in Nat
      /\ \A n \in DOMAIN s : /\ n \in UpTo(s, n) /\ IsFiniteSet(UpTo(s, n))
                             /\ c(n) \in 1 .. Len(s) /\ b[c(n)] = s[n]
      /\ \A k \in 1 .. Len(s) : \E n \in DOMAIN s : b[k] = s[n] /\ c(n) = k
  BY ByAgeRanks
<1> HIDE DEF b
<1>2. /\ q \in Seq(S) /\ Len(q) = d /\ q # <<>> /\ DOMAIN q = 1 .. d
      /\ \A m \in 1 .. d : q[m] = b[m]
  <2>1. d \in 1 .. Len(b) /\ b \in Seq(S)
    BY <1>1
  <2> QED BY <2>1, FirstsAre
<1> HIDE DEF q
<1>3. ASSUME NEW n \in 1 .. d, NEW j \in ToSet(s), ~(inst[q[n]].batch <= inst[j].batch)
      PROVE  \E m \in 1 .. d : m < n /\ q[m] = j
  <2>1. n \in 1 .. Len(s) /\ n \in Nat
    <3>1. Len(s) \in Nat
      BY <1>1
    <3> QED BY <3>1
  <2>2. PICK x \in DOMAIN s : b[n] = s[x] /\ c(x) = n
    BY <1>1, <2>1
  <2>3. PICK y \in DOMAIN s : j = s[y]
    BY DEF ToSet
  <2>4. inst[s[y]].batch < inst[s[x]].batch
    <3>1. q[n] = s[x] /\ s[x] \in S /\ s[y] \in S
      BY <1>2, <2>2
    <3>2. inst[s[x]].batch \in Nat /\ inst[s[y]].batch \in Nat
      BY <3>1
    <3> QED BY <1>3, <2>3, <3>1, <3>2
  <2>5. UpTo(s, y) \in SUBSET UpTo(s, x) /\ x \notin UpTo(s, y)
    <3>1. \A z \in DOMAIN s : inst[s[z]].batch \in Nat
      OBVIOUS
    <3>2. \A z \in UpTo(s, y) : z \in DOMAIN s /\ inst[s[z]].batch <= inst[s[y]].batch
      BY <3>1 DEF UpTo
    <3>3. \A z \in DOMAIN s : inst[s[z]].batch < inst[s[x]].batch => z \in UpTo(s, x)
      BY DEF UpTo
    <3>4. \A z \in UpTo(s, y) : inst[s[z]].batch < inst[s[x]].batch
      BY <2>2, <2>3, <2>4, <3>1, <3>2
    <3>5. ~(inst[s[x]].batch < inst[s[x]].batch)
      BY <2>2, <3>1
    <3> QED BY <3>2, <3>3, <3>4, <3>5
  <2>6. c(y) < c(x)
    <3> DEFINE X == UpTo(s, x)
               Y == UpTo(s, y)
    <3>1. IsFiniteSet(X) /\ Y \in SUBSET X /\ Y # X
      <4>1. x \in UpTo(s, x) /\ IsFiniteSet(UpTo(s, x))
        BY <1>1
      <4> QED BY <2>5, <4>1
    <3>2. Cardinality(X) \in Nat /\ Cardinality(Y) \in Nat
      <4>1. IsFiniteSet(UpTo(s, y))
        BY <1>1
      <4> QED BY <3>1, <4>1, FS_CardinalityType
    <3> HIDE DEF X, Y
    <3>3. Cardinality(Y) <= Cardinality(X) /\ Cardinality(Y) # Cardinality(X)
      BY <3>1, FS_Subset
    <3>4. Cardinality(Y) < Cardinality(X)
      BY <3>2, <3>3
    <3> QED BY <3>4 DEF X, Y
  <2>7. c(y) \in 1 .. d /\ b[c(y)] = j
    <3>1. c(y) \in 1 .. Len(s) /\ b[c(y)] = s[y]
      BY <1>1, <2>3
    <3>2. c(y) < n /\ n <= d
      BY <2>2, <2>6
    <3>3. Len(s) \in Nat /\ c(y) \in Int /\ 1 <= c(y) /\ d \in Int /\ n \in Int
      BY <1>1, <3>1
    <3> HIDE DEF c
    <3>4. c(y) \in 1 .. d
      BY <3>2, <3>3
    <3> QED BY <2>3, <3>1, <3>4
  <2> QED BY <1>2, <2>2, <2>6, <2>7
<1> QED BY <1>2, <1>3 DEF q, b

-----------------------------------------------------------------------------
(* What the account does meanwhile.                                        *)

\* Every row has its columns, and a batch.
Dated(a) == Rowed(a) /\ \A i \in Ids : a[i].batch \in Nat

\* What a step of t leaves of every row, whatever its kind.
Lasts(a, b, t) ==
  /\ Dated(b)
  /\ \A i \in Ids : b[i].prepaid = a[i].prepaid /\ b[i].killer \in {a[i].killer, t}

LEMMA LastsItself ==
  ASSUME NEW a, Dated(a), NEW t
  PROVE  Lasts(a, a, t)
BY DEF Lasts

\* A row that another took the place of.
LEMMA LastsExcept ==
  ASSUME Dated(inst), NEW t, NEW i, NEW e, On(e, Ids), \A j \in Ids \ {i} : e[j] = inst[j],
         i \in Ids => /\ On(e[i], Columns) /\ e[i].batch = inst[i].batch
                      /\ e[i].prepaid = inst[i].prepaid /\ e[i].killer \in {inst[i].killer, t}
  PROVE  Lasts(inst, e, t)
<1>1. ASSUME NEW j \in Ids
      PROVE  /\ On(e[j], Columns) /\ e[j].batch \in Nat /\ e[j].prepaid = inst[j].prepaid
             /\ e[j].killer \in {inst[j].killer, t}
  <2>1. CASE j = i
    BY <2>1 DEF Dated
  <2>2. CASE j # i
    BY <2>2 DEF Dated, Rowed
  <2> QED BY <2>1, <2>2
<1> QED BY <1>1 DEF Lasts, Dated, Rowed

LEMMA KilledLasts ==
  ASSUME Dated(inst), NEW i, NEW t
  PROVE  /\ Lasts(inst, Killed(i, t), t) /\ \A j \in Ids \ {i} : Killed(i, t)[j] = inst[j]
         /\ i \in Ids => /\ Killed(i, t)[i].state = "TERMINATING" /\ Killed(i, t)[i].killer = t
                         /\ Killed(i, t)[i].pool = inst[i].pool
                         /\ Killed(i, t)[i].batch = inst[i].batch
<1> DEFINE e == Killed(i, t)
<1>1. On(inst, Ids) /\ \A j \in Ids : On(inst[j], Columns)
  BY DEF Dated, Rowed
<1>2. On(e, Ids) /\ \A j \in Ids \ {i} : e[j] = inst[j]
  BY <1>1 DEF Killed, On
<1>3. i \in Ids => e[i] = [inst[i] EXCEPT !.state = "TERMINATING", !.killer = t]
  BY <1>1 DEF Killed, On
<1> HIDE DEF e
<1>4. i \in Ids => /\ On(e[i], Columns) /\ e[i].batch = inst[i].batch /\ e[i].pool = inst[i].pool
                   /\ e[i].prepaid = inst[i].prepaid /\ e[i].killer = t
                   /\ e[i].state = "TERMINATING"
  BY <1>1, <1>3 DEF On, Columns
<1>5. Lasts(inst, e, t)
  BY <1>2, <1>4, LastsExcept
<1> QED BY <1>2, <1>4, <1>5 DEF e

LEMMA MovedIs ==
  ASSUME Dated(inst), NEW i, NEW s, NEW b
  PROVE  LET e == Moved(i, s, b)
         IN  /\ On(e, Ids) /\ \A j \in Ids \ {i} : e[j] = inst[j]
             /\ i \in Ids => /\ On(e[i], Columns) /\ e[i].state = s /\ e[i].pool = inst[i].pool
                             /\ e[i].batch = inst[i].batch /\ e[i].prepaid = inst[i].prepaid
                             /\ e[i].killer = inst[i].killer
<1> DEFINE e == Moved(i, s, b)
<1>1. On(inst, Ids) /\ \A j \in Ids : On(inst[j], Columns)
  BY DEF Dated, Rowed
<1>2. On(e, Ids) /\ \A j \in Ids \ {i} : e[j] = inst[j]
  BY <1>1 DEF Moved, On
<1>3. i \in Ids => e[i] = [inst[i] EXCEPT !.state = s, !.asked = b]
  BY <1>1 DEF Moved, On
<1> HIDE DEF e
<1>4. i \in Ids => /\ On(e[i], Columns) /\ e[i].batch = inst[i].batch /\ e[i].pool = inst[i].pool
                   /\ e[i].prepaid = inst[i].prepaid /\ e[i].killer = inst[i].killer
                   /\ e[i].state = s
  BY <1>1, <1>3 DEF On, Columns
<1> QED BY <1>2, <1>4 DEF e

LEMMA MovedLasts ==
  ASSUME Dated(inst), NEW i, NEW s, NEW b, NEW t
  PROVE  Lasts(inst, Moved(i, s, b), t)
<1> DEFINE e == Moved(i, s, b)
<1>1. /\ On(e, Ids) /\ \A j \in Ids \ {i} : e[j] = inst[j]
      /\ i \in Ids => /\ On(e[i], Columns) /\ e[i].batch = inst[i].batch
                      /\ e[i].prepaid = inst[i].prepaid /\ e[i].killer = inst[i].killer
  BY MovedIs
<1> HIDE DEF e
<1>2. Lasts(inst, e, t)
  BY <1>1, LastsExcept
<1> QED BY <1>2 DEF e

LEMMA WroteLasts ==
  ASSUME Dated(inst), NEW i, NEW f, NEW v, NEW t
  PROVE  Lasts(inst, [inst EXCEPT ![i].conf[f] = v], t)
<1> DEFINE e == [inst EXCEPT ![i].conf[f] = v]
<1>1. On(inst, Ids) /\ \A j \in Ids : On(inst[j], Columns)
  BY DEF Dated, Rowed
<1>2. On(e, Ids) /\ \A j \in Ids \ {i} : e[j] = inst[j]
  BY <1>1 DEF On
<1>3. i \in Ids => e[i] = [inst[i] EXCEPT !.conf = [@ EXCEPT ![f] = v]]
  BY <1>1 DEF On
<1> HIDE DEF e
<1>4. i \in Ids => /\ On(e[i], Columns) /\ e[i].batch = inst[i].batch
                   /\ e[i].prepaid = inst[i].prepaid /\ e[i].killer = inst[i].killer
  BY <1>1, <1>3 DEF On, Columns
<1>5. Lasts(inst, e, t)
  BY <1>2, <1>4, LastsExcept
<1> QED BY <1>5 DEF e

\* A launch gives rows to new ids only.
LEMMA LaunchedRows ==
  ASSUME Dated(inst), NEW n, NEW p
  PROVE  LET b == Launched(n, p)
             New == NewIds(n)
         IN  /\ On(b, Ids) /\ New \in SUBSET Ids
             /\ \A i \in New : inst[i].state = "UNBORN"
             /\ \A i \in Ids \ New : b[i] = inst[i]
             /\ \A i \in New : b[i].state = "PENDING" /\ (b[i].pool <=> p.kind = "pool")
             /\ \A i \in Ids : /\ On(b[i], Columns) /\ b[i].batch \in Nat
                               /\ b[i].prepaid = inst[i].prepaid /\ b[i].killer = inst[i].killer
<1> DEFINE b == Launched(n, p)
           New == NewIds(n)
           m == CHOOSE m \in New : \A j \in New : m <= j
<1>1. /\ New \in SUBSET Ids /\ (\A i \in New : inst[i].state = "UNBORN")
      /\ Ids = 1 .. MaxId /\ MaxId \in Nat
  BY CvmAssumption DEF NewIds, Unborn, Ids
<1>2. On(b, Ids) /\ \A j \in Ids \ New : b[j] = inst[j]
  BY DEF Launched, On
<1>3. ASSUME NEW j \in New
      PROVE  /\ On(b[j], Columns) /\ b[j].state = "PENDING" /\ (b[j].pool <=> p.kind = "pool")
             /\ b[j].batch \in Nat /\ b[j].prepaid = inst[j].prepaid
             /\ b[j].killer = inst[j].killer
  <2> DEFINE c == [x \in Fields |-> IF p.want[x] = None THEN inst[j].conf[x] ELSE p.want[x]]
             s == p.kind = "pool"
  <2>1. j \in Ids
    BY <1>1
  <2>2. b[j] = [inst[j] EXCEPT !.state = "PENDING", !.name = p.name, !.pool = s,
                               !.batch = m, !.conf = c]
    BY <2>1, Zenon DEF Launched
  <2>3. On(inst[j], Columns)
    BY <2>1 DEF Dated, Rowed
  <2>4. \E x \in New : \A y \in New : x <= y
    <3> HIDE DEF New
    <3> QED BY <1>1, LeastIs
  <2>5. m \in New
    <3> HIDE DEF New
    <3> QED BY <2>4
  <2>6. m \in Nat
    BY <1>1, <2>5
  <2> HIDE DEF c, m, s, b, New
  <2>7. /\ On(b[j], Columns) /\ b[j].state = "PENDING" /\ b[j].batch = m /\ b[j].pool = s
        /\ b[j].prepaid = inst[j].prepaid /\ b[j].killer = inst[j].killer
    BY <2>2, <2>3 DEF On, Columns
  <2> QED BY <2>6, <2>7 DEF s
<1> HIDE DEF b, New, m
<1>4. ASSUME NEW i \in Ids
      PROVE  /\ On(b[i], Columns) /\ b[i].batch \in Nat /\ b[i].prepaid = inst[i].prepaid
             /\ b[i].killer = inst[i].killer
  <2>1. CASE i \in New
    BY <1>3, <2>1
  <2>2. CASE i \notin New
    BY <1>2, <2>2 DEF Dated, Rowed
  <2> QED BY <2>1, <2>2
<1> QED BY <1>1, <1>2, <1>3, <1>4 DEF b, New

LEMMA LaunchedLasts ==
  ASSUME Dated(inst), NEW n, NEW p, NEW t
  PROVE  Lasts(inst, Launched(n, p), t)
<1> DEFINE b == Launched(n, p)
<1>1. On(b, Ids) /\ \A i \in Ids : /\ On(b[i], Columns) /\ b[i].batch \in Nat
                                    /\ b[i].prepaid = inst[i].prepaid
                                    /\ b[i].killer = inst[i].killer
  BY LaunchedRows
<1> HIDE DEF b
<1>2. Lasts(inst, b, t)
  BY <1>1 DEF Lasts, Dated, Rowed
<1> QED BY <1>2 DEF b

\* As many ids are new as were asked for.
LEMMA NewIdsAre ==
  ASSUME NEW n \in Nat, Cardinality(Unborn) >= n
  PROVE  Cardinality(NewIds(n)) = n
<1> DEFINE S == Unborn
           N == Cardinality(S)
           Q == NewIds(n)
           lo == N - n
           T == (lo + 1) .. N
           q == NewestFirst(S)
           g == [m \in T |-> q[m]]
<1>1. S \in SUBSET (1 .. MaxId) /\ MaxId \in Nat /\ Q \in SUBSET S
  BY CvmAssumption DEF Unborn, Ids, NewIds
<1>2. IsFiniteSet(S) /\ N \in Nat /\ n <= N /\ lo \in Nat /\ IsFiniteSet(Q) /\ Cardinality(Q) \in Nat
  <2>1. IsFiniteSet(S) /\ N \in Nat /\ IsFiniteSet(Q) /\ Cardinality(Q) \in Nat
    BY <1>1, PartsFinite
  <2> QED BY <2>1
<1>3. /\ q \in Seq(S) /\ Len(q) = N
      /\ \A m \in 1 .. N : q[m] \in S /\ RankIn(S, q[m]) = m
  BY <1>1, NewestFirstIs
\* Those below i are those that are not from i on.
<1>4. ASSUME NEW i \in S
      PROVE  /\ RankIn(S, i) \in 1 .. N /\ RankIn(S, i) \in Nat
             /\ i \in Q <=> lo < RankIn(S, i)
  <2> DEFINE A == {j \in S : j >= i}
             B == {j \in S : j < i}
  <2>1. RankIn(S, i) \in 1 .. N /\ RankIn(S, i) \in Nat
    BY <1>1, RankRange
  <2>2. B = S \ A /\ S \cap A = A
    <3>1. i \in Nat /\ \A j \in S : j \in Nat
      BY <1>1
    <3> HIDE DEF S
    <3>2. \A j \in S : j < i <=> ~(j >= i)
      BY <3>1
    <3> QED BY <3>2
  <2>3. Cardinality(A) = RankIn(S, i)
    BY DEF RankIn
  <2>4. i \in Q <=> Cardinality(B) < n
    BY DEF NewIds
  <2> HIDE DEF A, B, S, Q
  <2>5. Cardinality(S \ A) = Cardinality(S) - Cardinality(S \cap A)
    BY <1>2, FS_Difference
  <2>6. Cardinality(B) = N - RankIn(S, i)
    BY <2>2, <2>3, <2>5
  <2> QED BY <1>2, <2>1, <2>4, <2>6
<1> HIDE DEF S, Q, q
<1>5. Cardinality(Q) <= n
  <2>1. lo \in Int /\ N \in Int /\ (Q = {} => lo <= N)
        /\ \A i \in Q : lo < RankIn(S, i) /\ RankIn(S, i) <= N
    BY <1>1, <1>2, <1>4
  <2>2. Cardinality(Q) <= N - lo
    <3> HIDE DEF N, lo
    <3> QED BY <1>1, <2>1, RankSpan
  <2> QED BY <1>2, <2>2
<1>6. IsFiniteSet(T) /\ Cardinality(T) = n
  <2>1. lo + 1 \in Int /\ N \in Int /\ lo <= N
    BY <1>2
  <2> HIDE DEF N
  <2>2. IsFiniteSet(T) /\ Cardinality(T) = IF lo + 1 > N THEN 0 ELSE N - (lo + 1) + 1
    BY <2>1, FS_Interval
  <2> QED BY <1>2, <2>2
<1>7. g \in Injection(T, Q)
  <2>1. \A m \in T : m \in 1 .. N /\ lo < m
    BY <1>2
  <2>2. \A m \in T : q[m] \in Q
    BY <1>3, <1>4, <2>1
  <2>3. \A x, y \in T : q[x] = q[y] => x = y
    BY <1>3, <2>1
  <2> HIDE DEF T, N
  <2>4. g \in [T -> Q] /\ \A x, y \in T : g[x] = g[y] => x = y
    BY <2>2, <2>3
  <2> HIDE DEF g
  <2> QED BY <2>4 DEF Injection, IsInjective
<1>8. n <= Cardinality(Q)
  <2> HIDE DEF T, g
  <2>1. Cardinality(T) <= Cardinality(Q)
    BY <1>2, <1>7, FS_Injection
  <2> QED BY <1>6, <2>1
<1> QED BY <1>2, <1>5, <1>8 DEF Q

\* One that is terminated leaves.
LEMMA KilledLeaves ==
  ASSUME Dated(inst), NEW i \in Ever(inst), Killable(i), NEW t
  PROVE  LET b == Killed(i, t)
         IN  /\ Ever(b) = Ever(inst) /\ Leaving(b) = Leaving(inst) \cup {i}
             /\ Staying(b) = Staying(inst) \ {i}
             /\ Cardinality(Staying(b)) = Cardinality(Staying(inst)) - 1
             /\ \A j \in Ids : b[j].batch = inst[j].batch
<1> DEFINE b == Killed(i, t)
           S == Staying(inst)
<1>1. i \in Ids /\ inst[i].pool /\ inst[i].state \notin {"UNBORN", "TERMINATING", "TERMINATED", "GONE"}
  BY DEF Ever, Killable
<1>2. /\ \A j \in Ids \ {i} : b[j] = inst[j]
      /\ b[i].state = "TERMINATING" /\ b[i].pool = inst[i].pool /\ b[i].batch = inst[i].batch
  <2>1. /\ Lasts(inst, b, t) /\ \A j \in Ids \ {i} : b[j] = inst[j]
        /\ i \in Ids => /\ b[i].state = "TERMINATING" /\ b[i].killer = t
                        /\ b[i].pool = inst[i].pool /\ b[i].batch = inst[i].batch
    BY KilledLasts
  <2> HIDE DEF b
  <2> QED BY <1>1, <2>1
<1> HIDE DEF b
<1>3. Ever(b) = Ever(inst)
  BY <1>1, <1>2 DEF Ever
<1>4. Leaving(b) = Leaving(inst) \cup {i}
  BY <1>1, <1>2 DEF Leaving
<1>5. Staying(b) = S \ {i} /\ i \in S
  BY <1>1, <1>2 DEF Staying, OnList
<1>6. Cardinality(S \ {i}) = Cardinality(S) - 1
  <2>1. IsFiniteSet(S) /\ Cardinality(S) \in Nat
    BY MembersAre, IdsFinite
  <2> HIDE DEF S
  <2> QED BY <1>5, <2>1, FS_RemoveElement
<1>7. \A j \in Ids : b[j].batch = inst[j].batch
  BY <1>2
<1> QED BY <1>3, <1>4, <1>5, <1>6, <1>7 DEF b

\* Those that are launched join.
LEMMA LaunchedJoin ==
  ASSUME Dated(inst), NEW n \in Nat, Cardinality(Unborn) >= n, NEW p, p.kind = "pool"
  PROVE  LET b == Launched(n, p)
         IN  /\ Leaving(b) = Leaving(inst)
             /\ Cardinality(Staying(b)) = Cardinality(Staying(inst)) + n
<1> DEFINE b == Launched(n, p)
           New == NewIds(n)
           S == Staying(inst)
<1>1. /\ New \in SUBSET Ids /\ (\A i \in New : inst[i].state = "UNBORN")
      /\ \A i \in Ids \ New : b[i] = inst[i]
      /\ \A i \in New : b[i].state = "PENDING" /\ b[i].pool
  <2>1. /\ New \in SUBSET Ids /\ (\A i \in New : inst[i].state = "UNBORN")
        /\ \A i \in Ids \ New : b[i] = inst[i]
        /\ \A i \in New : b[i].state = "PENDING" /\ (b[i].pool <=> p.kind = "pool")
    BY LaunchedRows
  <2> HIDE DEF New, b
  <2> QED BY <2>1
<1>2. Cardinality(New) = n
  BY NewIdsAre
<1> HIDE DEF b, New
<1>3. Leaving(b) = Leaving(inst)
  <2>1. ASSUME NEW i \in Ids PROVE i \in Leaving(b) <=> i \in Leaving(inst)
    BY <1>1 DEF Leaving
  <2>2. Leaving(b) \in SUBSET Ids /\ Leaving(inst) \in SUBSET Ids
    BY DEF Leaving
  <2> QED BY <2>1, <2>2
<1>4. Staying(b) = S \cup New /\ S \cap New = {}
  <2>1. ASSUME NEW i \in Ids PROVE i \in Staying(b) <=> i \in S \/ i \in New
    BY <1>1 DEF Staying, OnList
  <2>2. Staying(b) \in SUBSET Ids /\ S \in SUBSET Ids
    BY DEF Staying, OnList
  <2>3. S \cap New = {}
    BY <1>1 DEF Staying, OnList
  <2> HIDE DEF S
  <2> QED BY <1>1, <2>1, <2>2, <2>3
<1>5. Cardinality(Staying(b)) = Cardinality(S) + n
  <2>1. S \in SUBSET Ids
    BY MembersAre
  <2> HIDE DEF S
  <2>2. IsFiniteSet(S) /\ IsFiniteSet(New) /\ Cardinality(S) \in Nat
    BY <1>1, <2>1, IdsFinite
  <2>3. Cardinality(S \cup New) = Cardinality(S) + Cardinality(New) - Cardinality(S \cap New)
    BY <2>2, FS_Union
  <2>4. Cardinality(S \cap New) = 0
    BY <1>4, FS_EmptySet
  <2>5. Cardinality(S \cup New) = Cardinality(S) + n - 0
    BY <1>2, <2>3, <2>4
  <2> QED BY <1>4, <2>2, <2>5
<1> QED BY <1>3, <1>5 DEF b

\* The cloud finishes what leaves, and takes nobody else away.
LEMMA SettledStay ==
  ASSUME Dated(inst), NEW i \in Ids, Settle(i)
  PROVE  /\ \A t : Lasts(inst, inst', t)
         /\ Ever(inst') = Ever(inst) /\ Leaving(inst') \in SUBSET Leaving(inst)
         /\ Staying(inst') = Staying(inst)
         /\ \A j \in Ids : inst'[j].batch = inst[j].batch /\ inst'[j].killer = inst[j].killer
<1>1. PICK s : /\ Becomes(i, s) /\ s # "UNBORN" /\ inst[i].state \notin {"UNBORN", "GONE"}
               /\ \/ inst[i].state = "TERMINATING" /\ s = "TERMINATED"
                  \/ inst[i].state = "TERMINATED" /\ s = "GONE"
                  \/ /\ inst[i].state \notin {"TERMINATING", "TERMINATED"}
                     /\ s \notin {"TERMINATING", "TERMINATED", "GONE"}
  BY DEF Settle
<1>2. PICK b : b = inst'
  OBVIOUS
<1>3. b = Moved(i, s, FALSE)
  BY <1>1, <1>2 DEF Becomes, Moved
<1>4. /\ \A j \in Ids \ {i} : b[j] = inst[j]
      /\ b[i].state = s /\ b[i].pool = inst[i].pool /\ b[i].batch = inst[i].batch
      /\ b[i].killer = inst[i].killer
  <2>1. PICK c : c = FALSE
    OBVIOUS
  <2>2. b = Moved(i, s, c)
    BY <1>3, <2>1
  <2>3. /\ \A j \in Ids \ {i} : Moved(i, s, c)[j] = inst[j]
        /\ Moved(i, s, c)[i].state = s /\ Moved(i, s, c)[i].pool = inst[i].pool
        /\ Moved(i, s, c)[i].batch = inst[i].batch
        /\ Moved(i, s, c)[i].killer = inst[i].killer
    BY MovedIs
  <2> QED BY <2>2, <2>3
<1>5. \A t : Lasts(inst, b, t)
  <2>1. ASSUME NEW c, NEW t PROVE Lasts(inst, Moved(i, s, c), t)
    BY MovedLasts
  <2> QED BY <1>3, <2>1, Zenon
<1>6. Ever(b) = Ever(inst)
  BY <1>1, <1>4 DEF Ever
<1>7. Leaving(b) \in SUBSET Leaving(inst)
  BY <1>1, <1>4 DEF Leaving
<1>8. Staying(b) = Staying(inst)
  BY <1>1, <1>4 DEF Staying, OnList
<1>9. \A j \in Ids : b[j].batch = inst[j].batch /\ b[j].killer = inst[j].killer
  BY <1>4
<1> QED BY <1>2, <1>5, <1>6, <1>7, <1>8, <1>9

-----------------------------------------------------------------------------
(* What any step of a task leaves.                                         *)

LEMMA CallLasts ==
  ASSUME Dated(inst), On(task, Tasks), NEW t \in Tasks, NEW accepted, NEW effect, NEW k,
         Call(t, accepted, effect, k), Lasts(inst, effect, t)
  PROVE  /\ On(task', Tasks) /\ \A u \in Tasks \ {t} : task'[u] = task[u]
         /\ params' = params /\ Lasts(inst, inst', t)
<1>1. inst' \in {inst, effect} /\ params' = params /\ \E l : Set(t, l)
  BY DEF Call
<1>2. On(task', Tasks) /\ \A u \in Tasks \ {t} : task'[u] = task[u]
  BY <1>1 DEF Set, On
<1>3. Lasts(inst, inst, t)
  BY LastsItself
<1> QED BY <1>1, <1>2, <1>3

LEMMA StepLasts ==
  ASSUME Dated(inst), On(task, Tasks), NEW t \in Tasks, Step(t)
  PROVE  /\ On(task', Tasks) /\ \A u \in Tasks \ {t} : task'[u] = task[u]
         /\ params' = params /\ Lasts(inst, inst', t) /\ task[t].pc # "done"
         /\ task[t].pc = "start" =>
              inst' = inst /\ \A u \in params[t].after : task[u].pc = "done"
<1>1. Lasts(inst, inst, t)
  BY LastsItself
<1>2. CASE Start(t) \/ TimeOut(t)
  <2>1. inst' = inst /\ params' = params /\ \E l : Set(t, l)
    BY <1>2 DEF Start, TimeOut
  <2>2. On(task', Tasks) /\ \A u \in Tasks \ {t} : task'[u] = task[u]
    BY <2>1 DEF Set, On
  <2>3. /\ task[t].pc \in {"start", "await"}
        /\ task[t].pc = "start" => \A u \in params[t].after : task[u].pc = "done"
    BY <1>2 DEF Start, TimeOut
  <2> QED BY <1>1, <2>1, <2>2, <2>3
<1>3. CASE Page(t) \/ Poll(t) \/ Find(t) \/ Refind(t)
  <2>1. \E k : Call(t, TRUE, inst, k)
    BY <1>3 DEF Page, Poll, Find, Refind, Read
  <2>2. task[t].pc \in {"count", "recount", "await", "find", "refind"}
    BY <1>3 DEF Page, Poll, Find, Refind
  <2> QED BY <1>1, <2>1, <2>2, CallLasts
<1>4. CASE RunBatch(t) \/ Create(t)
  <2>1. (\E k : Call(t, TRUE, inst, k)) \/ \E c, n, k : Call(t, c, Launched(n, params[t]), k)
    BY <1>4 DEF RunBatch, Create, Read
  <2>2. task[t].pc \in {"run", "create"}
    BY <1>4 DEF RunBatch, Create
  <2>3. \A n : Lasts(inst, Launched(n, params[t]), t)
    BY LaunchedLasts
  <2> QED BY <1>1, <2>1, <2>2, <2>3, CallLasts
<1>5. CASE TerminateOldest(t) \/ Delete(t)
  <2>1. (\E k : Call(t, TRUE, inst, k)) \/ \E c, i, k : Call(t, c, Killed(i, t), k)
    BY <1>5 DEF TerminateOldest, Delete, Read
  <2>2. task[t].pc \in {"terminate", "delete"}
    BY <1>5 DEF TerminateOldest, Delete
  <2>3. \A i : Lasts(inst, Killed(i, t), t)
    BY KilledLasts
  <2> QED BY <1>1, <2>1, <2>2, <2>3, CallLasts
<1>6. CASE Write(t)
  <2>1. PICK c, i, f, v, k : Call(t, c, [inst EXCEPT ![i].conf[f] = v], k)
    BY <1>6 DEF Write
  <2>2. task[t].pc = "write"
    BY <1>6 DEF Write
  <2>3. Lasts(inst, [inst EXCEPT ![i].conf[f] = v], t)
    BY WroteLasts
  <2> QED BY <2>1, <2>2, <2>3, CallLasts
<1>7. CASE Power(t)
  <2> DEFINE y == Verb(params[t].kind)
             e == Moved(task[t].target, y.to, y.to = y.from)
  <2>1. task[t].pc = "power" /\ \E c, k : Call(t, c, e, k)
    BY <1>7 DEF Power, Moved
  <2> HIDE DEF y
  <2>2. Lasts(inst, e, t)
    BY MovedLasts
  <2> HIDE DEF e
  <2> QED BY <2>1, <2>2, CallLasts
<1> QED BY <1>2, <1>3, <1>4, <1>5, <1>6, <1>7 DEF Step

\* While t acts, a task that shares the pool with nobody is at rest, or t only begins.
LEMMA RestMeanwhile ==
  ASSUME InTurn, Dated(inst), On(task, Tasks), NEW t \in Tasks, Step(t),
         NEW u \in Tasks \ {t}, Alone(u)
  PROVE  task[u].pc \in {"start", "done"} \/ inst' = inst
<1>1. task[t].pc # "done" /\ (task[t].pc = "start" => inst' = inst)
  BY StepLasts
<1>2. u \in params[t].after \/ t \in params[u].after
  BY DEF Alone
<1>3. /\ t \in params[u].after /\ task[u].pc # "start" => task[t].pc = "done"
      /\ u \in params[t].after /\ task[t].pc # "start" => task[u].pc = "done"
  BY DEF InTurn
<1> QED BY <1>1, <1>2, <1>3

LEMMA TurnsKept ==
  ASSUME InTurn, Dated(inst), On(task, Tasks), NEW t \in Tasks, Step(t)
  PROVE  InTurn'
<1>1. /\ params' = params /\ task[t].pc # "done"
      /\ \A u \in Tasks \ {t} : task'[u] = task[u]
      /\ task[t].pc = "start" => \A u \in params[t].after : task[u].pc = "done"
  BY StepLasts
<1> SUFFICES ASSUME NEW a \in Tasks, NEW u \in Tasks, u \in params[a].after, task'[a].pc # "start"
             PROVE  task'[u].pc = "done"
  BY <1>1 DEF InTurn
<1>2. task[u].pc = "done"
  <2>1. CASE a = t
    BY <1>1, <2>1 DEF InTurn
  <2>2. CASE a # t
    BY <1>1, <2>2 DEF InTurn
  <2> QED BY <2>1, <2>2
<1> QED BY <1>1, <1>2

-----------------------------------------------------------------------------
(* What a task for the pool goes by, and what it reports.                  *)

\* Where it is, and what it is left with there.
Onward(k) ==
  /\ ForPool(k) /\ k.seen \in Seq(Ids) /\ k.doomed \in Seq(Ids) /\ k.batches \in Seq(Nat)
  /\ k.pc \in {"start", "count", "recount", "run"} => k.doomed = <<>>
  /\ k.pc \in {"start", "count", "recount", "terminate"} => k.batches = <<>>
  /\ k.pc = "start" => k.seen = <<>> /\ k.offset = 0
  /\ k.pc = "run" => k.batches # <<>>
  /\ k.pc = "terminate" => k.doomed # <<>>
  /\ k.pc = "await" => /\ k.batches = <<>> \/ k.doomed = <<>>
                       /\ k.goal = "GONE" => k.todo # <<>> /\ Tail(k.todo) = <<>>
  /\ k.pc # "done" => k.result = "none"

\* None of those it is to terminate is PREPAID.
Paid(a, k) == \A n \in DOMAIN k.doomed : ~a[k.doomed[n]].prepaid

\* Each of those it is to terminate is no younger than any that stays, but for
\* those before it.
Ripe(a, k) ==
  \A n \in DOMAIN k.doomed, j \in Staying(a) :
    a[k.doomed[n]].batch <= a[j].batch \/ \E m \in DOMAIN k.doomed : m < n /\ k.doomed[m] = j

\* What it has seen is so.
Sees(a, k) ==
  /\ k.doomed \in Seq(Ever(a)) /\ Ripe(a, k)
  /\ k.pc = "count" => Leaving(a) = {} /\ Walked(a, k)

\* Who it waits for to be gone.
Awaited(k) == IF k.pc = "await" /\ k.goal = "GONE" THEN {Head(k.todo)} ELSE {}

\* What it has still to do makes the pool as large as it is asked for.
Exact(a, k, p) ==
  k.pc \in {"run", "terminate", "recount", "await"} =>
    /\ Leaving(a) \in SUBSET Awaited(k)
    /\ Holds(k.batches, p.count + Len(k.doomed) - Cardinality(Staying(a)))

\* It reports success with the pool it was asked for, if nothing was lost.
Told(a, k, p) == k.result # "failed" /\ ~k.lost /\ ~p.check => Cardinality(Belonging(a)) = p.count

Duty(a, k, p) ==
  k.clean => IF k.pc = "done" THEN Told(a, k, p)
             ELSE Sees(a, k) /\ (~k.lost => Exact(a, k, p))

\* l knows what k knows.
Same(k, l) ==
  /\ l.seen = k.seen /\ l.offset = k.offset /\ l.batches = k.batches /\ l.doomed = k.doomed
  /\ l.todo = k.todo /\ l.goal = k.goal /\ l.clean = k.clean

\* l is where k is, or failed.
Holding(k, l) == (l.pc = k.pc /\ l.result = k.result) \/ (l.pc = "done" /\ l.result = "failed")

LEMMA EndSame ==
  ASSUME NEW t \in Tasks, On(task[t], Known), NEW r
  PROVE  LET l == EndedAs(t, r)
         IN  On(l, Known) /\ Same(task[t], l) /\ l.pc = "done" /\ l.result = r /\ l.lost = task[t].lost
BY DEF On, Known, EndedAs, Same

LEMMA RaiseSame ==
  ASSUME NEW t \in Tasks, On(task[t], Known), NEW f
  PROVE  LET l == Raise(t, f)
         IN  /\ On(l, Known) /\ Same(task[t], l) /\ Holding(task[t], l)
             /\ ~l.lost => ~task[t].lost /\ ~f.done
<1> DEFINE k == [task[t] EXCEPT !.tries = @ + 1, !.lost = @ \/ f.done]
           e == EndedAs(t, "failed")
           d == [e EXCEPT !.lost = @ \/ f.done]
<1>1. /\ On(k, Known) /\ Same(task[t], k) /\ Holding(task[t], k)
      /\ k.lost = (task[t].lost \/ f.done)
  BY DEF On, Known, Same, Holding
<1>2. /\ On(e, Known) /\ Same(task[t], e) /\ e.pc = "done" /\ e.result = "failed"
      /\ e.lost = task[t].lost
  BY EndSame
<1>3. /\ On(d, Known) /\ Same(task[t], d) /\ Holding(task[t], d)
      /\ d.lost = (task[t].lost \/ f.done)
  <2> HIDE DEF e
  <2> QED BY <1>2 DEF On, Known, Same, Holding
<1>4. Raise(t, f) = k \/ Raise(t, f) = d
  BY DEF Raise
<1> HIDE DEF k, d
<1> QED BY <1>1, <1>3, <1>4

LEMMA SameOnward ==
  ASSUME NEW k, Onward(k), NEW l, On(l, Known), Same(k, l), Holding(k, l)
  PROVE  Onward(l)
<1>1. ForPool(l)
  BY DEF ForPool, PoolPlaces, Onward, Holding
<1> QED BY <1>1 DEF Onward, Same, Holding

LEMMA SamePaid ==
  ASSUME NEW a, NEW b, NEW t, Lasts(a, b, t), NEW k, Onward(k), Paid(a, k),
         NEW l, l.doomed = k.doomed
  PROVE  Paid(b, l)
<1>1. \A n \in DOMAIN k.doomed : k.doomed[n] \in Ids
  BY DEF Onward
<1> QED BY <1>1 DEF Paid, Lasts

\* A call that failed, or whose reply was lost with its work done.
LEMMA DutyHeld ==
  ASSUME NEW a, NEW b, NEW k, NEW l, NEW p, Same(k, l), Holding(k, l), k.pc # "done",
         Duty(a, k, p), Sees(a, k) => Sees(b, k), ~l.lost => ~k.lost /\ b = a
  PROVE  Duty(b, l, p)
<1>1. CASE l.pc = "done" /\ l.result = "failed"
  BY <1>1 DEF Duty, Told
<1>2. CASE l.pc = k.pc
  <2> SUFFICES ASSUME l.clean PROVE Sees(b, l) /\ (~l.lost => Exact(b, l, p))
    BY <1>2 DEF Duty
  <2>1. Sees(b, k) /\ (~k.lost => Exact(a, k, p))
    BY <1>2 DEF Duty, Same
  <2>2. Sees(b, l)
    BY <1>2, <2>1 DEF Sees, Same, Ripe, Walked
  <2>3. ASSUME ~l.lost PROVE Exact(b, l, p)
    BY <1>2, <2>1, <2>3 DEF Exact, Same, Awaited
  <2> QED BY <2>2, <2>3
<1> QED BY <1>1, <1>2 DEF Holding

\* What one step of t leaves of it.
Moves(t) ==
  /\ Onward(task'[t]) /\ Paid(inst', task'[t])
  /\ Duty(inst, task[t], params[t]) => Duty(inst', task'[t], params[t])
  /\ task'[t].pc = "done" => task'[t].clean = task[t].clean

\* What holds of it when it takes one.
Busy(t) ==
  /\ t \in Tasks /\ Dated(inst) /\ On(task, Tasks) /\ params[t] \in Param
  /\ params[t].kind = "pool" /\ Onward(task[t]) /\ Paid(inst, task[t]) /\ task[t].pc # "done"

LEMMA BusyIs ==
  ASSUME NEW t, Busy(t)
  PROVE  /\ t \in Tasks /\ Dated(inst) /\ On(task, Tasks) /\ On(task[t], Known)
         /\ params[t].count \in Nat /\ params[t].zones \in Nat /\ params[t].kind = "pool"
         /\ Onward(task[t]) /\ ForPool(task[t]) /\ task[t].pc \in PoolPlaces
         /\ Paid(inst, task[t]) /\ task[t].pc # "done" /\ task[t].result = "none"
         /\ Cardinality(Staying(inst)) \in Nat
<1>1. Cardinality(Staying(inst)) \in Nat
  BY MembersAre, IdsFinite
<1> QED BY <1>1 DEF Busy, Param, Onward, ForPool

LEMMA CallMoves ==
  ASSUME NEW t, Busy(t), NEW accepted \in BOOLEAN, NEW effect, NEW k, Call(t, accepted, effect, k),
         Lasts(inst, effect, t),
         accepted => Onward(k) /\ Paid(effect, k) /\ k.clean = task[t].clean,
         accepted /\ Duty(inst, task[t], params[t]) => Duty(effect, k, params[t]),
         accepted /\ Sees(inst, task[t]) => Sees(effect, task[t])
  PROVE  Moves(t)
<1> DEFINE m == task[t]
           p == params[t]
           l == task'[t]
<1>1. /\ t \in Tasks /\ On(task, Tasks) /\ On(m, Known) /\ Onward(m) /\ Paid(inst, m)
      /\ m.pc # "done"
  BY BusyIs
<1>2. ASSUME NEW x, Set(t, x) PROVE l = x
  BY <1>1, <1>2 DEF Set, On
<1>3. CASE accepted /\ inst' = effect /\ Set(t, k)
  <2>1. l = k
    BY <1>2, <1>3
  <2> QED BY <1>3, <2>1 DEF Moves
<1>4. ASSUME Same(m, l), Holding(m, l), On(l, Known), inst' \in {inst, effect},
             accepted \/ inst' = inst, ~l.lost => ~m.lost /\ inst' = inst
      PROVE  Moves(t)
  <2>1. Onward(l)
    BY <1>1, <1>4, SameOnward
  <2>2. PICK b : b = inst'
    OBVIOUS
  <2>3. Lasts(inst, b, t)
    <3>1. Lasts(inst, inst, t)
      BY LastsItself DEF Busy
    <3> QED BY <1>4, <2>2, <3>1
  <2>4. Paid(b, l)
    <3>1. l.doomed = m.doomed
      BY <1>4 DEF Same
    <3> QED BY <1>1, <2>3, <3>1, SamePaid
  <2>5. ASSUME Duty(inst, m, p) PROVE Duty(b, l, p)
    <3>1. Sees(inst, m) => Sees(b, m)
      BY <1>4, <2>2
    <3>2. ~l.lost => ~m.lost /\ b = inst
      BY <1>4, <2>2
    <3> QED BY <1>1, <1>4, <2>5, <3>1, <3>2, DutyHeld
  <2>6. l.clean = m.clean
    BY <1>4 DEF Same
  <2> QED BY <2>1, <2>2, <2>4, <2>5, <2>6 DEF Moves
<1>5. CASE ~accepted /\ inst' = inst /\ Set(t, EndedAs(t, "failed"))
  <2>1. l = EndedAs(t, "failed")
    BY <1>2, <1>5
  <2>2. On(l, Known) /\ Same(m, l) /\ Holding(m, l) /\ l.lost = m.lost
    BY <1>1, <2>1, EndSame DEF Holding
  <2> QED BY <1>4, <1>5, <2>2
<1>6. ASSUME NEW f \in Faults, inst' = IF accepted /\ f.done THEN effect ELSE inst,
             Set(t, Raise(t, f))
      PROVE  Moves(t)
  <2>1. l = Raise(t, f)
    BY <1>2, <1>6
  <2>2. On(l, Known) /\ Same(m, l) /\ Holding(m, l) /\ (~l.lost => ~m.lost /\ ~f.done)
    BY <1>1, <2>1, RaiseSame
  <2> QED BY <1>4, <1>6, <2>2
<1> QED BY <1>3, <1>5, <1>6 DEF Call

LEMMA ReadMoves ==
  ASSUME NEW t, Busy(t), NEW k, Read(t, k), Onward(k), Paid(inst, k), k.clean = task[t].clean,
         Duty(inst, task[t], params[t]) => Duty(inst, k, params[t])
  PROVE  Moves(t)
<1>1. Lasts(inst, inst, t)
  BY LastsItself DEF Busy
<1>2. Call(t, TRUE, inst, k)
  BY DEF Read
<1> QED BY <1>1, <1>2, CallMoves

-----------------------------------------------------------------------------
(* Each of its steps.                                                      *)

\* It has nothing to keep before the walk.
LEMMA DutyBegins ==
  ASSUME NEW k, Onward(k), k.pc = "start", NEW a, NEW p
  PROVE  Duty(a, k, p)
<1>1. k.doomed = <<>>
  BY DEF Onward
<1> QED BY <1>1 DEF Duty, Sees, Ripe, Exact

LEMMA StartMoves ==
  ASSUME NEW t, Busy(t), Start(t)
  PROVE  Moves(t)
<1> DEFINE k == task[t]
           p == params[t]
           c == \A i \in Ids : inst[i].state \notin {"TERMINATING", "TERMINATED"}
           a == At(t, "count")
           l == [a EXCEPT !.clean = c]
<1>1. /\ On(k, Known) /\ Onward(k) /\ k.pc = "start" /\ p.kind = "pool" /\ k.result = "none"
      /\ t \in Tasks /\ On(task, Tasks)
  BY BusyIs DEF Start
<1>2. /\ k.doomed = <<>> /\ k.batches = <<>> /\ k.seen = <<>> /\ k.offset = 0
  BY <1>1 DEF Onward
<1>3. inst' = inst /\ task'[t] = l
  BY <1>1 DEF Start, Set, On
<1> HIDE DEF c
<1>4. /\ On(l, Known) /\ l.pc = "count" /\ l.doomed = <<>> /\ l.batches = <<>>
      /\ l.seen = <<>> /\ l.offset = 0 /\ l.result = "none" /\ l.clean = c
  <2>1. /\ On(a, Known) /\ a.pc = "count" /\ a.doomed = <<>> /\ a.batches = <<>>
        /\ a.seen = <<>> /\ a.offset = 0 /\ a.result = "none"
    BY <1>1, <1>2 DEF At, On, Known
  <2> HIDE DEF a
  <2> QED BY <2>1 DEF On, Known
<1> HIDE DEF l
<1>5. Onward(l) /\ Paid(inst, l)
  BY <1>4 DEF Onward, ForPool, PoolPlaces, Paid
<1>6. ASSUME c PROVE Leaving(inst) = {} /\ Walked(inst, l)
  <2>1. Leaving(inst) = {}
    BY <1>6 DEF c, Leaving
  <2>2. Top(inst, 0) = {}
    <3>1. \A i \in OnList(inst) : RankIn(OnList(inst), i) \in Nat /\ RankIn(OnList(inst), i) # 0
      <4> SUFFICES ASSUME NEW i \in OnList(inst)
                   PROVE  RankIn(OnList(inst), i) \in Nat /\ RankIn(OnList(inst), i) # 0
        OBVIOUS
      <4>1. OnList(inst) \in SUBSET (1 .. MaxId) /\ MaxId \in Nat
        BY EverIs
      <4>2. RankIn(OnList(inst), i) \in 1 .. Cardinality(OnList(inst)) /\ RankIn(OnList(inst), i) \in Nat
        BY <4>1, RankRange
      <4> QED BY <4>2
    <3> QED BY <3>1 DEF Top
  <2>3. ToSet(<<>>) = {} /\ Len(<<>>) = 0
    BY DEF ToSet
  <2>4. Cardinality({}) = 0
    BY FS_EmptySet
  <2>5. l.offset \in Nat /\ l.seen \in Seq(Ids)
    BY <1>4
  <2>6. ToSet(l.seen) = Top(inst, l.offset) /\ Len(l.seen) = Cardinality(Top(inst, l.offset))
    BY <1>4, <2>2, <2>3, <2>4
  <2> QED BY <2>1, <2>5, <2>6 DEF Walked
<1>7. Duty(inst, l, p)
  BY <1>4, <1>6 DEF Duty, Sees, Ripe, Exact
<1> QED BY <1>3, <1>4, <1>5, <1>7 DEF Moves

LEMMA TimeOutMoves ==
  ASSUME NEW t, Busy(t), TimeOut(t)
  PROVE  Moves(t)
<1> DEFINE k == task[t]
           l == EndedAs(t, "failed")
<1>1. On(k, Known) /\ Onward(k) /\ Paid(inst, k) /\ t \in Tasks /\ On(task, Tasks)
  BY BusyIs
<1>2. inst' = inst /\ task'[t] = l
  BY <1>1 DEF TimeOut, Set, On
<1>3. On(l, Known) /\ Same(k, l) /\ l.pc = "done" /\ l.result = "failed"
  BY <1>1, EndSame
<1> HIDE DEF l
<1>4. Onward(l)
  BY <1>1, <1>3, SameOnward DEF Holding
<1>5. Paid(inst, l) /\ l.clean = k.clean
  BY <1>1, <1>3 DEF Paid, Same
<1>6. Duty(inst, l, params[t])
  BY <1>3 DEF Duty, Told
<1> QED BY <1>2, <1>4, <1>5, <1>6 DEF Moves

\* The walk has met all there are, and nobody leaves.
AllSeen(k) ==
  /\ Leaving(inst) = {} /\ ToSet(k.seen) = OnList(inst)
  /\ Len(k.seen) = Cardinality(OnList(inst))

LEMMA DecideMoves ==
  ASSUME NEW t, Dated(inst), params[t] \in Param, NEW k, Onward(k), k.pc = "count"
  PROVE  LET l == Decide(t, k)
         IN  /\ Onward(l) /\ Paid(inst, l) /\ l.clean = k.clean
             /\ (k.clean => AllSeen(k)) => Duty(inst, l, params[t])
<1> DEFINE p == params[t]
           short == p.count - Len(k.seen)
           doomed == IF short < 0 THEN SubSeq(ByAge(k.seen), 1, -short) ELSE <<>>
           counts == IF p.zones = 0 THEN <<short>> ELSE SpreadCounts(short, p.zones)
           C == k.clean => AllSeen(k)
           Fine(l) == Onward(l) /\ Paid(inst, l) /\ l.clean = k.clean /\ (C => Duty(inst, l, p))
           N == Len(k.seen)
<1>1. /\ p.count \in Nat /\ p.zones \in Nat /\ On(k, Known) /\ k.seen \in Seq(Ids)
      /\ N \in Nat /\ k.doomed = <<>> /\ k.batches = <<>> /\ k.result = "none"
  BY DEF Param, Onward, ForPool
<1>2. C /\ k.clean => /\ Belonging(inst) = OnList(inst) /\ Staying(inst) = OnList(inst)
                      /\ Cardinality(OnList(inst)) = N /\ ToSet(k.seen) = OnList(inst)
                      /\ Leaving(inst) = {}
  BY MembersAre DEF AllSeen
<1> HIDE DEF C
<1>3. ASSUME NEW r, r = "failed" \/ (r = "changed" /\ p.check) \/ (r = "unchanged" /\ short = 0)
      PROVE  Fine([k EXCEPT !.pc = "done", !.result = r])
  <2> DEFINE l == [k EXCEPT !.pc = "done", !.result = r]
  <2>1. /\ On(l, Known) /\ l.pc = "done" /\ l.result = r /\ Same(k, l)
    BY <1>1 DEF On, Known, Same
  <2> HIDE DEF l
  <2>2. Onward(l) /\ Paid(inst, l)
    BY <1>1, <2>1 DEF Onward, ForPool, PoolPlaces, Same, Paid
  <2>3. l.clean = k.clean
    BY <2>1 DEF Same
  <2>4. r = "unchanged" => N = p.count
    BY <1>1, <1>3
  <2>5. C => Duty(inst, l, p)
    BY <1>2, <1>3, <2>1, <2>3, <2>4 DEF Duty, Told
  <2> QED BY <2>2, <2>3, <2>5 DEF l
<1>4. ASSUME Decide(t, k) = [k EXCEPT !.pc = "terminate", !.doomed = doomed],
             short < 0, ~\E i \in ToSet(doomed) : inst[i].prepaid
      PROVE  Fine(Decide(t, k))
  <2> DEFINE l == [k EXCEPT !.pc = "terminate", !.doomed = doomed]
             d == -short
  <2>1. d \in 1 .. N /\ d = N - p.count /\ doomed = SubSeq(ByAge(k.seen), 1, d)
    BY <1>1, <1>4
  <2> HIDE DEF d, short, doomed, N
  <2>2. ASSUME NEW S, \A i \in S : inst[i].batch \in Nat, k.seen \in Seq(S)
        PROVE  /\ doomed \in Seq(S) /\ Len(doomed) = d /\ doomed # <<>> /\ DOMAIN doomed = 1 .. d
               /\ \A n \in 1 .. d, j \in ToSet(k.seen) :
                    \/ inst[doomed[n]].batch <= inst[j].batch
                    \/ \E m \in 1 .. d : m < n /\ doomed[m] = j
    <3>1. d \in 1 .. Len(k.seen)
      BY <2>1 DEF N
    <3>2. LET q == SubSeq(ByAge(k.seen), 1, d)
          IN  /\ q \in Seq(S) /\ Len(q) = d /\ q # <<>> /\ DOMAIN q = 1 .. d
              /\ \A n \in 1 .. d, j \in ToSet(k.seen) :
                   inst[q[n]].batch <= inst[j].batch \/ \E m \in 1 .. d : m < n /\ q[m] = j
      BY <2>2, <3>1, OldestAre
    <3> QED BY <2>1, <3>2, Zenon
  <2>3. \A i \in Ids : inst[i].batch \in Nat
    BY DEF Dated
  <2>4. /\ doomed \in Seq(Ids) /\ Len(doomed) = d /\ doomed # <<>> /\ DOMAIN doomed = 1 .. d
        /\ \A n \in 1 .. d, j \in ToSet(k.seen) :
             \/ inst[doomed[n]].batch <= inst[j].batch
             \/ \E m \in 1 .. d : m < n /\ doomed[m] = j
    BY <1>1, <2>2, <2>3
  <2>5. /\ On(l, Known) /\ l.pc = "terminate" /\ l.doomed = doomed /\ l.batches = <<>>
        /\ l.seen = k.seen /\ l.offset = k.offset /\ l.result = "none" /\ l.clean = k.clean
    BY <1>1 DEF On, Known
  <2> HIDE DEF l
  <2>6. Onward(l)
    BY <1>1, <2>4, <2>5 DEF Onward, ForPool, PoolPlaces
  <2>7. Paid(inst, l)
    BY <1>4, <2>4, <2>5 DEF Paid, ToSet
  <2>8. ASSUME C, k.clean PROVE Sees(inst, l) /\ Exact(inst, l, p)
    <3>1. OnList(inst) \in SUBSET Ever(inst)
      BY DEF OnList, Ever
    <3>2. k.seen \in Seq(Ever(inst))
      <4>1. \A n \in 1 .. Len(k.seen) : k.seen[n] \in ToSet(k.seen)
        BY <1>1 DEF ToSet
      <4>2. \A n \in 1 .. Len(k.seen) : k.seen[n] \in Ever(inst)
        BY <1>2, <2>8, <3>1, <4>1
      <4> QED BY <1>1, <4>2
    <3>3. doomed \in Seq(Ever(inst))
      <4>1. \A i \in Ever(inst) : inst[i].batch \in Nat
        BY <2>3 DEF Ever
      <4> QED BY <2>2, <3>2, <4>1
    <3>4. Ripe(inst, l)
      BY <1>2, <2>4, <2>5, <2>8 DEF Ripe
    <3>5. p.count + Len(l.doomed) - Cardinality(Staying(inst)) = 0
      BY <1>1, <1>2, <2>1, <2>4, <2>5, <2>8
    <3>6. Holds(<<>>, 0)
      <4>1. /\ Len(<<>>) = 0 + 0 /\ 0 = 0 * (0 + 1) + 0 * 0
            /\ \A z \in 1 .. 0 : <<>>[z] = 0 + 1
            /\ \A z \in 0 + 1 .. 0 + 0 : <<>>[z] = 0
        OBVIOUS
      <4>2. 0 \in Nat
        OBVIOUS
      <4> QED BY <4>1, <4>2 DEF Holds
    <3>7. Exact(inst, l, p)
      BY <1>2, <2>5, <2>8, <3>5, <3>6 DEF Exact
    <3>8. Sees(inst, l)
      BY <2>5, <3>3, <3>4 DEF Sees
    <3> QED BY <3>7, <3>8
  <2>9. C => Duty(inst, l, p)
    BY <2>5, <2>8 DEF Duty
  <2>10. Fine(l)
    BY <2>5, <2>6, <2>7, <2>9
  <2> QED BY <1>4, <2>10 DEF l
<1>5. ASSUME Decide(t, k) = [k EXCEPT !.pc = "run", !.batches = NonZero(counts)], short > 0
      PROVE  Fine(Decide(t, k))
  <2> DEFINE q == NonZero(counts)
             l == [k EXCEPT !.pc = "run", !.batches = q]
  <2>1. q \in Seq(Nat) /\ q # <<>> /\ Holds(q, short)
    <3>1. short \in Nat \ {0}
      BY <1>1, <1>5
    <3> HIDE DEF short
    <3> QED BY <1>1, <3>1, BatchesAre, HoldsSpread
  <2> HIDE DEF q
  <2>2. /\ On(l, Known) /\ l.pc = "run" /\ l.doomed = <<>> /\ l.batches = q
        /\ l.seen = k.seen /\ l.offset = k.offset /\ l.result = "none" /\ l.clean = k.clean
    BY <1>1 DEF On, Known
  <2> HIDE DEF l
  <2>3. Onward(l) /\ Paid(inst, l)
    BY <1>1, <2>1, <2>2 DEF Onward, ForPool, PoolPlaces, Paid
  <2>4. ASSUME C, k.clean PROVE Sees(inst, l) /\ Exact(inst, l, p)
    <3>1. p.count + Len(l.doomed) - Cardinality(Staying(inst)) = short
      <4>1. Len(l.doomed) = 0
        BY <2>2
      <4> QED BY <1>1, <1>2, <2>4, <4>1
    <3> HIDE DEF short
    <3>2. Exact(inst, l, p)
      BY <1>2, <2>1, <2>2, <2>4, <3>1 DEF Exact
    <3>3. Sees(inst, l)
      BY <2>2 DEF Sees, Ripe
    <3> QED BY <3>2, <3>3
  <2>5. C => Duty(inst, l, p)
    BY <2>2, <2>4 DEF Duty
  <2>6. Fine(l)
    BY <2>2, <2>3, <2>5
  <2> QED BY <1>5, <2>6 DEF l, q
<1>6. \/ Decide(t, k) = [k EXCEPT !.pc = "done", !.result = "unchanged"] /\ short = 0
      \/ Decide(t, k) = [k EXCEPT !.pc = "done", !.result = "failed"]
      \/ Decide(t, k) = [k EXCEPT !.pc = "done", !.result = "changed"] /\ p.check
      \/ /\ Decide(t, k) = [k EXCEPT !.pc = "terminate", !.doomed = doomed]
         /\ short < 0 /\ ~\E i \in ToSet(doomed) : inst[i].prepaid
      \/ Decide(t, k) = [k EXCEPT !.pc = "run", !.batches = NonZero(counts)] /\ short # 0 /\ ~(short < 0)
  BY Zenon DEF Decide
<1>7. short # 0 /\ ~(short < 0) => short > 0
  BY <1>1
<1>8. Fine(Decide(t, k))
  <2> HIDE DEF short, doomed, counts, Fine, p
  <2>1. CASE Decide(t, k) = [k EXCEPT !.pc = "done", !.result = "unchanged"] /\ short = 0
    BY <1>3, <2>1
  <2>2. CASE Decide(t, k) = [k EXCEPT !.pc = "done", !.result = "failed"]
    BY <1>3, <2>2
  <2>3. CASE Decide(t, k) = [k EXCEPT !.pc = "done", !.result = "changed"] /\ p.check
    BY <1>3, <2>3
  <2> QED BY <1>4, <1>5, <1>6, <1>7, <2>1, <2>2, <2>3
<1> QED BY <1>8 DEF C

LEMMA PageMoves ==
  ASSUME NEW t, Busy(t), Page(t)
  PROVE  Moves(t)
<1> DEFINE k == task[t]
           p == params[t]
           rows == PageAt(k.offset)
           o == k.offset + Len(rows)
           s == k.seen \o NewestFirst(ToSet(rows) \cap Pool)
           now == [k EXCEPT !.tries = 0, !.offset = o, !.seen = s]
           told == [now EXCEPT !.pc = "done", !.result = "changed"]
           last == rows = <<>> \/ o >= Len(Listing) \/ Len(s) >= Len(Listing)
<1>1. /\ Dated(inst) /\ p \in Param /\ On(k, Known) /\ Onward(k) /\ Paid(inst, k)
      /\ k.pc \in {"count", "recount"} /\ k.result = "none"
  BY BusyIs DEF Page, Busy
<1>2. /\ k.doomed = <<>> /\ k.batches = <<>> /\ k.seen \in Seq(Ids)
  BY <1>1 DEF Onward
<1>3. /\ On(now, Known) /\ now.pc = k.pc /\ now.seen = s /\ now.offset = o /\ now.result = "none"
      /\ now.batches = <<>> /\ now.doomed = <<>> /\ now.clean = k.clean /\ now.lost = k.lost
  <2> HIDE DEF s, o
  <2> QED BY <1>1, <1>2 DEF On, Known
<1>4. \/ ~last /\ Read(t, now)
      \/ last /\ k.pc = "count" /\ Read(t, Decide(t, now))
      \/ last /\ k.pc = "recount" /\ Read(t, told)
  <2>1. Read(t, IF ~(rows = <<>> \/ now.offset >= Len(Listing) \/ Len(now.seen) >= Len(Listing)) THEN now
                ELSE IF k.pc = "count" THEN Decide(t, now) ELSE told)
    BY DEF Page
  <2>2. last <=> rows = <<>> \/ now.offset >= Len(Listing) \/ Len(now.seen) >= Len(Listing)
    BY <1>3
  <2> HIDE DEF now, told, last, rows
  <2> QED BY <1>1, <2>1, <2>2
<1>5. s \in Seq(Ids)
  <2>1. ToSet(rows) \cap Pool \in SUBSET Ids
    BY DEF Pool
  <2> HIDE DEF rows
  <2> QED BY <1>2, <2>1, NewestFirstHas
<1>6. ASSUME Leaving(inst) = {}, Walked(inst, k)
      PROVE  /\ o \in Nat /\ s \in Seq(Ids) /\ ToSet(s) = Top(inst, o)
             /\ Len(s) = Cardinality(Top(inst, o))
             /\ last => Top(inst, o) = OnList(inst)
  BY <1>6, WalksOn
<1> HIDE DEF s, o, rows, last
<1>7. Onward(now) /\ Paid(inst, now)
  <2> HIDE DEF now
  <2> QED BY <1>1, <1>3, <1>5 DEF Onward, ForPool, PoolPlaces, Paid
<1>8. ASSUME Duty(inst, k, p), now.clean, now.pc = "count"
      PROVE  Leaving(inst) = {} /\ Walked(inst, now) /\ (last => AllSeen(now))
  <2>1. Leaving(inst) = {} /\ Walked(inst, k)
    BY <1>3, <1>8 DEF Duty, Sees
  <2> HIDE DEF now
  <2>2. Walked(inst, now)
    BY <1>3, <1>6, <2>1 DEF Walked
  <2>3. last => AllSeen(now)
    BY <1>3, <1>6, <2>1 DEF AllSeen
  <2> QED BY <2>1, <2>2, <2>3
<1>9. ASSUME Duty(inst, k, p), k.clean, k.pc = "recount", ~k.lost
       PROVE  Leaving(inst) = {} /\ Cardinality(Staying(inst)) = p.count
  <2>1. Leaving(inst) = {} /\ Holds(<<>>, p.count + Len(<<>>) - Cardinality(Staying(inst)))
    BY <1>2, <1>9 DEF Duty, Exact, Awaited
  <2>2. p.count + Len(<<>>) - Cardinality(Staying(inst)) = 0
    BY <2>1, HoldsNone
  <2>3. p.count \in Nat /\ Cardinality(Staying(inst)) \in Nat
    BY BusyIs
  <2> QED BY <2>1, <2>2, <2>3
<1> HIDE DEF now
<1>10. CASE ~last /\ Read(t, now)
  <2>1. ASSUME Duty(inst, k, p) PROVE Duty(inst, now, p)
    <3>1. ASSUME now.clean PROVE Sees(inst, now)
      BY <1>3, <1>8, <2>1, <3>1 DEF Sees, Ripe
    <3>2. ASSUME now.clean, ~now.lost PROVE Exact(inst, now, p)
      BY <1>1, <1>2, <1>3, <2>1, <3>2 DEF Exact, Duty, Awaited
    <3> QED BY <1>1, <1>3, <3>1, <3>2 DEF Duty
  <2> QED BY <1>3, <1>7, <1>10, <2>1, ReadMoves
<1>11. CASE last /\ k.pc = "count" /\ Read(t, Decide(t, now))
  <2> DEFINE l == Decide(t, now)
  <2>1. /\ Onward(l) /\ Paid(inst, l) /\ l.clean = now.clean
        /\ (now.clean => AllSeen(now)) => Duty(inst, l, p)
    BY <1>1, <1>3, <1>7, <1>11, DecideMoves
  <2>2. Duty(inst, k, p) => (now.clean => AllSeen(now))
    BY <1>3, <1>8, <1>11
  <2> HIDE DEF l
  <2>3. Read(t, l)
    BY <1>11 DEF l
  <2> QED BY <1>3, <2>1, <2>2, <2>3, ReadMoves
<1>12. CASE last /\ k.pc = "recount" /\ Read(t, told)
  <2>1. /\ On(told, Known) /\ told.pc = "done" /\ told.seen = s /\ told.lost = k.lost
        /\ told.batches = <<>> /\ told.doomed = <<>> /\ told.clean = k.clean
    BY <1>3 DEF On, Known
  <2> HIDE DEF told
  <2>2. Onward(told) /\ Paid(inst, told)
    BY <1>5, <2>1 DEF Onward, ForPool, PoolPlaces, Paid
  <2>3. Duty(inst, k, p) => Duty(inst, told, p)
    BY <1>9, <1>12, <2>1, MembersAre DEF Duty, Told
  <2> QED BY <1>12, <2>1, <2>2, <2>3, ReadMoves
<1> QED BY <1>4, <1>10, <1>11, <1>12

LEMMA BatchMoves ==
  ASSUME NEW t, Busy(t), RunBatch(t)
  PROVE  Moves(t)
<1> DEFINE k == task[t]
           p == params[t]
           n == Head(k.batches)
           q == Tail(k.batches)
           d == InOrder(NewIds(n))
           l == [At(t, "await") EXCEPT !.batches = q, !.goal = "RUNNING", !.todo = d]
           m == Cardinality(Unborn) >= n
           b == Launched(n, p)
<1>1. /\ Dated(inst) /\ On(k, Known) /\ Onward(k) /\ Paid(inst, k) /\ p.kind = "pool"
      /\ k.pc = "run" /\ k.result = "none"
      /\ p.count \in Nat /\ Cardinality(Staying(inst)) \in Nat
  BY BusyIs DEF RunBatch
<1>2. k.doomed = <<>> /\ k.batches \in Seq(Nat) /\ k.batches # <<>> /\ k.seen \in Seq(Ids)
  BY <1>1 DEF Onward
<1>3. n \in Nat /\ q \in Seq(Nat)
  BY <1>2, TailIs
<1>4. Call(t, m, b, l)
  <2>1. [At(t, "await") EXCEPT !.batches = Tail(@), !.goal = "RUNNING", !.todo = d] = l
    <3>1. On(At(t, "await"), Known) /\ At(t, "await").batches = k.batches
      BY <1>1 DEF At, On, Known
    <3> QED BY <3>1
  <2>2. Call(t, m, Launched(n, p), [At(t, "await") EXCEPT !.batches = Tail(@), !.goal = "RUNNING", !.todo = d])
    BY DEF RunBatch
  <2> QED BY <2>1, <2>2
<1>5. /\ Lasts(inst, b, t)
      /\ m => /\ Leaving(b) = Leaving(inst)
              /\ Cardinality(Staying(b)) = Cardinality(Staying(inst)) + n
  <2>1. Lasts(inst, b, t)
    BY <1>1, LaunchedLasts
  <2> HIDE DEF n
  <2>2. ASSUME m PROVE /\ Leaving(b) = Leaving(inst)
                       /\ Cardinality(Staying(b)) = Cardinality(Staying(inst)) + n
    BY <1>1, <1>3, <2>2, LaunchedJoin
  <2> QED BY <2>1, <2>2
<1>6. ASSUME NEW x, Holds(k.batches, x) PROVE Holds(q, x - n)
  BY <1>2, <1>6, HoldsTail
<1> HIDE DEF n, q, d
<1>7. /\ On(l, Known) /\ l.pc = "await" /\ l.batches = q /\ l.doomed = <<>> /\ l.goal = "RUNNING"
      /\ l.seen = k.seen /\ l.lost = k.lost /\ l.clean = k.clean /\ l.result = "none"
  <2> DEFINE a == At(t, "await")
  <2>1. /\ On(a, Known) /\ a.pc = "await" /\ a.doomed = <<>> /\ a.seen = k.seen
        /\ a.lost = k.lost /\ a.clean = k.clean /\ a.result = "none"
    BY <1>1, <1>2 DEF At, On, Known
  <2> HIDE DEF a
  <2>2. LET x == [a EXCEPT !.batches = q, !.goal = "RUNNING", !.todo = d]
        IN  /\ On(x, Known) /\ x.pc = "await" /\ x.batches = q /\ x.doomed = <<>>
            /\ x.goal = "RUNNING" /\ x.seen = k.seen /\ x.lost = k.lost /\ x.clean = k.clean
            /\ x.result = "none"
    BY <2>1 DEF On, Known
  <2> QED BY <2>2 DEF a
<1> HIDE DEF l, b
<1>8. Onward(l) /\ Paid(b, l)
  BY <1>2, <1>3, <1>7 DEF Onward, ForPool, PoolPlaces, Paid
<1>9. ASSUME m, Duty(inst, k, p) PROVE Duty(b, l, p)
  <2>1. Sees(b, l)
    BY <1>7 DEF Sees, Ripe
  <2>2. ASSUME l.clean, ~l.lost PROVE Exact(b, l, p)
    <3> DEFINE x == p.count + Len(<<>>) - Cardinality(Staying(inst))
    <3>1. Leaving(inst) = {} /\ Holds(k.batches, x)
      BY <1>1, <1>2, <1>7, <1>9, <2>2 DEF Duty, Exact, Awaited
    <3>2. Holds(q, x - n)
      <4> HIDE DEF x
      <4> QED BY <1>6, <3>1
    <3>3. x - n = p.count + Len(<<>>) - Cardinality(Staying(b))
      BY <1>1, <1>3, <1>5, <1>9
    <3> HIDE DEF x
    <3> QED BY <1>5, <1>7, <1>9, <3>1, <3>2, <3>3 DEF Exact
  <2> QED BY <1>7, <2>1, <2>2 DEF Duty
<1>10. Sees(b, k)
  BY <1>1, <1>2 DEF Sees, Ripe
<1>11. m \in BOOLEAN
  OBVIOUS
<1> HIDE DEF m
<1> QED BY <1>4, <1>5, <1>7, <1>8, <1>9, <1>10, <1>11, CallMoves

LEMMA OldestMoves ==
  ASSUME NEW t, Busy(t), TerminateOldest(t)
  PROVE  Moves(t)
<1> DEFINE k == task[t]
           p == params[t]
           i == Head(k.doomed)
           q == Tail(k.doomed)
           l == [At(t, "await") EXCEPT !.doomed = q, !.goal = "GONE", !.todo = <<i>>]
           b == Killed(i, t)
<1>1. /\ Dated(inst) /\ On(k, Known) /\ Onward(k) /\ Paid(inst, k)
      /\ k.pc = "terminate" /\ k.result = "none"
      /\ p.count \in Nat /\ Cardinality(Staying(inst)) \in Nat
  BY BusyIs DEF TerminateOldest
<1>2. k.batches = <<>> /\ k.doomed \in Seq(Ids) /\ k.doomed # <<>> /\ k.seen \in Seq(Ids)
  BY <1>1 DEF Onward
<1>3. ASSUME NEW S, k.doomed \in Seq(S)
      PROVE  /\ i \in S /\ 1 \in DOMAIN k.doomed /\ i = k.doomed[1] /\ q \in Seq(S)
             /\ \A n \in DOMAIN q : n + 1 \in DOMAIN k.doomed /\ q[n] = k.doomed[n + 1]
  BY <1>2, <1>3, TailIs
<1>4. Len(q) \in Nat /\ Len(k.doomed) = Len(q) + 1 /\ DOMAIN q = 1 .. Len(q)
      /\ DOMAIN k.doomed = 1 .. (Len(q) + 1)
  <2>1. Len(k.doomed) \in Nat /\ Len(k.doomed) # 0
    BY <1>2, EmptySeq
  <2> QED BY <1>2, <2>1
<1>5. Call(t, Killable(i), b, l)
  <2>1. [At(t, "await") EXCEPT !.doomed = Tail(@), !.goal = "GONE", !.todo = <<i>>] = l
    <3>1. On(At(t, "await"), Known) /\ At(t, "await").doomed = k.doomed
      BY <1>1 DEF At, On, Known
    <3> QED BY <3>1
  <2>2. Call(t, Killable(i), Killed(i, t), [At(t, "await") EXCEPT !.doomed = Tail(@), !.goal = "GONE", !.todo = <<i>>])
    BY DEF TerminateOldest
  <2> QED BY <2>1, <2>2
<1>6. Lasts(inst, b, t)
  BY <1>1, KilledLasts
<1>7. ASSUME Killable(i), i \in Ever(inst)
      PROVE  /\ Ever(b) = Ever(inst) /\ Leaving(b) = Leaving(inst) \cup {i}
             /\ Staying(b) = Staying(inst) \ {i}
             /\ Cardinality(Staying(b)) = Cardinality(Staying(inst)) - 1
             /\ \A j \in Ids : b[j].batch = inst[j].batch
  <2> HIDE DEF i
  <2> QED BY <1>1, <1>7, KilledLeaves
<1> HIDE DEF i, q
<1>8. /\ On(l, Known) /\ l.pc = "await" /\ l.batches = <<>> /\ l.doomed = q /\ l.goal = "GONE"
      /\ l.todo = <<i>> /\ l.seen = k.seen /\ l.lost = k.lost /\ l.clean = k.clean
      /\ l.result = "none"
  <2> DEFINE a == At(t, "await")
  <2>1. /\ On(a, Known) /\ a.pc = "await" /\ a.batches = <<>> /\ a.seen = k.seen
        /\ a.lost = k.lost /\ a.clean = k.clean /\ a.result = "none"
    BY <1>1, <1>2 DEF At, On, Known
  <2> HIDE DEF a
  <2>2. LET x == [a EXCEPT !.doomed = q, !.goal = "GONE", !.todo = <<i>>]
        IN  /\ On(x, Known) /\ x.pc = "await" /\ x.batches = <<>> /\ x.doomed = q
            /\ x.goal = "GONE" /\ x.todo = <<i>> /\ x.seen = k.seen /\ x.lost = k.lost
            /\ x.clean = k.clean /\ x.result = "none"
    BY <2>1 DEF On, Known
  <2> QED BY <2>2 DEF a
<1> HIDE DEF l, b
<1>9. Onward(l)
  <2>1. <<i>> # <<>> /\ Tail(<<i>>) = <<>>
    OBVIOUS
  <2> QED BY <1>2, <1>3, <1>8, <2>1 DEF Onward, ForPool, PoolPlaces
<1>10. Paid(b, l)
  <2>1. \A n \in DOMAIN q : n + 1 \in DOMAIN k.doomed /\ q[n] = k.doomed[n + 1] /\ q[n] \in Ids
    BY <1>2, <1>3
  <2> QED BY <1>1, <1>6, <1>8, <2>1 DEF Paid, Lasts
<1>11. ASSUME Killable(i), Sees(inst, k) PROVE Sees(b, k) /\ Sees(b, l)
  <2>1. k.doomed \in Seq(Ever(inst)) /\ Ripe(inst, k)
    BY <1>11 DEF Sees
  <2>2. /\ i \in Ever(inst) /\ i = k.doomed[1] /\ q \in Seq(Ever(inst))
        /\ \A n \in DOMAIN q : n + 1 \in DOMAIN k.doomed /\ q[n] = k.doomed[n + 1]
    BY <1>3, <2>1
  <2>3. /\ Ever(b) = Ever(inst) /\ Staying(b) = Staying(inst) \ {i}
        /\ \A j \in Ids : b[j].batch = inst[j].batch
    BY <1>7, <1>11, <2>2
  <2>4. \A n \in DOMAIN k.doomed : k.doomed[n] \in Ids
    BY <1>2
  <2>5. Staying(inst) \in SUBSET Ids
    BY MembersAre
  <2>6. Ripe(b, k)
    BY <2>1, <2>3, <2>4, <2>5 DEF Ripe
  <2>7. Ripe(b, l)
    <3> SUFFICES ASSUME NEW n \in DOMAIN q, NEW j \in Staying(b), ~(b[q[n]].batch <= b[j].batch)
                 PROVE  \E m \in DOMAIN q : m < n /\ q[m] = j
      BY <1>8 DEF Ripe
    <3>1. PICK m \in DOMAIN k.doomed : m < n + 1 /\ k.doomed[m] = j
      BY <2>2, <2>6 DEF Ripe
    <3>2. j # i
      BY <2>3
    <3>3. m - 1 \in DOMAIN q /\ m - 1 < n /\ m - 1 + 1 = m
      BY <1>4, <2>2, <3>1, <3>2
    <3>4. q[m - 1] = k.doomed[m]
      BY <2>2, <3>3
    <3> QED BY <3>1, <3>3, <3>4
  <2> QED BY <1>1, <1>8, <2>1, <2>2, <2>3, <2>6, <2>7 DEF Sees
<1>12. ASSUME Killable(i), Duty(inst, k, p) PROVE Duty(b, l, p)
  <2> SUFFICES ASSUME l.clean PROVE Sees(b, l) /\ (~l.lost => Exact(b, l, p))
    BY <1>8 DEF Duty
  <2>1. Sees(inst, k) /\ (~k.lost => Exact(inst, k, p))
    BY <1>1, <1>8, <1>12 DEF Duty
  <2>2. i \in Ever(inst)
    BY <1>3, <2>1 DEF Sees
  <2>3. /\ Leaving(b) = Leaving(inst) \cup {i}
        /\ Cardinality(Staying(b)) = Cardinality(Staying(inst)) - 1
    BY <1>7, <1>12, <2>2
  <2>4. ASSUME ~l.lost PROVE Exact(b, l, p)
    <3>1. /\ Leaving(inst) = {}
          /\ Holds(<<>>, p.count + Len(k.doomed) - Cardinality(Staying(inst)))
      BY <1>1, <1>2, <1>8, <2>1, <2>4 DEF Exact, Awaited
    <3>2. p.count + Len(k.doomed) - Cardinality(Staying(inst)) = p.count + Len(q) - Cardinality(Staying(b))
      BY <1>1, <1>4, <2>3
    <3>3. Awaited(l) = {i}
      BY <1>8 DEF Awaited
    <3> QED BY <1>8, <2>3, <3>1, <3>2, <3>3 DEF Exact
  <2> QED BY <1>11, <1>12, <2>1, <2>4
<1>13. Killable(i) \in BOOLEAN
  BY DEF Killable
<1> QED BY <1>5, <1>6, <1>8, <1>9, <1>10, <1>11, <1>12, <1>13, CallMoves

LEMMA PollMoves ==
  ASSUME NEW t, Busy(t), Poll(t)
  PROVE  Moves(t)
<1> DEFINE k == task[t]
           p == params[t]
           i == Head(k.todo)
           w == [k EXCEPT !.todo = Tail(@), !.tries = 0]
           z == [k EXCEPT !.tries = 0]
           e == EndedAs(t, "failed")
           at == IF k.batches # <<>> THEN "run" ELSE IF k.doomed # <<>> THEN "terminate" ELSE "recount"
           x == [w EXCEPT !.pc = at, !.offset = 0, !.seen = <<>>]
<1>1. /\ t \in Tasks /\ On(k, Known) /\ Onward(k) /\ Paid(inst, k) /\ p.kind = "pool"
      /\ k.pc = "await" /\ k.result = "none"
  BY BusyIs DEF Poll
<1>2. /\ k.doomed \in Seq(Ids) /\ k.batches \in Seq(Nat) /\ k.seen \in Seq(Ids)
      /\ k.batches = <<>> \/ k.doomed = <<>>
      /\ k.goal = "GONE" => k.todo # <<>> /\ Tail(k.todo) = <<>>
  BY <1>1 DEF Onward
<1>3. \/ inst[i].state = k.goal /\ Read(t, Waited(t))
      \/ Read(t, e) \/ Read(t, z)
  BY DEF Poll
<1>4. ASSUME NEW l, On(l, Known), Same(k, l), Holding(k, l), l.lost = k.lost, Read(t, l)
      PROVE  Moves(t)
  <2>1. Onward(l)
    BY <1>1, <1>4, SameOnward
  <2>2. Paid(inst, l) /\ l.clean = k.clean
    BY <1>1, <1>4 DEF Paid, Same
  <2>3. Duty(inst, k, p) => Duty(inst, l, p)
    BY <1>1, <1>4, DutyHeld
  <2> QED BY <1>4, <2>1, <2>2, <2>3, ReadMoves
<1>5. On(e, Known) /\ Same(k, e) /\ Holding(k, e) /\ e.lost = k.lost
  BY <1>1, EndSame DEF Holding
<1>6. On(z, Known) /\ Same(k, z) /\ Holding(k, z) /\ z.lost = k.lost
  BY <1>1 DEF On, Known, Same, Holding
<1>7. /\ On(w, Known) /\ w.pc = "await" /\ w.batches = k.batches /\ w.doomed = k.doomed
      /\ w.seen = k.seen /\ w.goal = k.goal /\ w.todo = Tail(k.todo) /\ w.lost = k.lost
      /\ w.clean = k.clean /\ w.result = "none"
  BY <1>1 DEF On, Known
<1>8. Waited(t) = IF w.todo # <<>> THEN w ELSE x
  <2>1. Waited(t) = IF w.todo # <<>> THEN w
                    ELSE [w EXCEPT !.pc = IF w.batches # <<>> THEN "run"
                                          ELSE IF w.doomed # <<>> THEN "terminate" ELSE "recount",
                                   !.offset = 0, !.seen = <<>>]
    BY <1>1, Zenon DEF Waited
  <2> HIDE DEF w
  <2> QED BY <1>7, <2>1
<1> HIDE DEF w, z, e
<1>9. /\ at \in {"run", "terminate", "recount"}
      /\ at = "run" => k.batches # <<>> /\ k.doomed = <<>>
      /\ at = "terminate" => k.doomed # <<>> /\ k.batches = <<>>
      /\ at = "recount" => k.doomed = <<>> /\ k.batches = <<>>
  BY <1>2
<1> HIDE DEF at, i
<1>10. /\ On(x, Known) /\ x.pc = at /\ x.batches = k.batches /\ x.doomed = k.doomed
       /\ x.seen = <<>> /\ x.lost = k.lost /\ x.clean = k.clean /\ x.result = "none"
  BY <1>7 DEF On, Known
<1> HIDE DEF x
<1>11. CASE w.todo # <<>> /\ Read(t, w)
  <2>1. k.goal # "GONE"
    BY <1>2, <1>7, <1>11
  <2>2. Onward(w) /\ Paid(inst, w)
    BY <1>1, <1>2, <1>7, <2>1 DEF Onward, ForPool, PoolPlaces, Paid
  <2>3. ASSUME Duty(inst, k, p) PROVE Duty(inst, w, p)
    <3>1. Sees(inst, k) => Sees(inst, w)
      BY <1>7 DEF Sees, Ripe
    <3>2. Exact(inst, k, p) => Exact(inst, w, p)
      BY <1>1, <1>7, <2>1 DEF Exact, Awaited
    <3> QED BY <1>1, <1>7, <2>3, <3>1, <3>2 DEF Duty
  <2> QED BY <1>7, <1>11, <2>2, <2>3, ReadMoves
<1>12. CASE inst[i].state = k.goal /\ Read(t, x)
  <2>1. Onward(x) /\ Paid(inst, x)
    BY <1>1, <1>2, <1>9, <1>10 DEF Onward, ForPool, PoolPlaces, Paid
  <2>2. ASSUME Duty(inst, k, p) PROVE Duty(inst, x, p)
    <3>1. Sees(inst, k) => Sees(inst, x)
      BY <1>9, <1>10 DEF Sees, Ripe
    <3>2. ASSUME Exact(inst, k, p) PROVE Exact(inst, x, p)
      <4>1. Leaving(inst) \in SUBSET Awaited(k)
        BY <1>1, <3>2 DEF Exact
      <4>2. Leaving(inst) = {}
        BY <1>1, <1>12, <4>1 DEF Awaited, Leaving, i
      <4> QED BY <1>1, <1>10, <3>2, <4>2 DEF Exact
    <3> QED BY <1>1, <1>9, <1>10, <2>2, <3>1, <3>2 DEF Duty
  <2> QED BY <1>10, <1>12, <2>1, <2>2, ReadMoves
<1> QED BY <1>3, <1>4, <1>5, <1>6, <1>8, <1>11, <1>12

LEMMA StepMoves ==
  ASSUME NEW t, Busy(t), Step(t)
  PROVE  Moves(t)
<1>1. task[t].pc \in PoolPlaces
  BY BusyIs
<1>2. ~Find(t) /\ ~Create(t) /\ ~Power(t) /\ ~Delete(t) /\ ~Write(t) /\ ~Refind(t)
  BY <1>1 DEF PoolPlaces, Find, Create, Power, Delete, Write, Refind
<1> QED BY <1>2, StartMoves, PageMoves, BatchMoves, OldestMoves, PollMoves, TimeOutMoves DEF Step

\* A launch terminates nobody.
LEMMA LaunchedKills ==
  ASSUME Dated(inst), NEW n, NEW p, NEW i \in Ids
  PROVE  Launched(n, p)[i].killer = inst[i].killer
BY LaunchedRows

\* It terminates the next of those it chose.
LEMMA KillsNext ==
  ASSUME NEW t, Busy(t), Step(t), NEW i \in Ids, inst[i].killer # t, inst'[i].killer = t
  PROVE  task[t].doomed # <<>> /\ i = Head(task[t].doomed)
<1>1. task[t].pc \in PoolPlaces /\ Dated(inst) /\ Onward(task[t])
  BY BusyIs
<1>2. ~Find(t) /\ ~Create(t) /\ ~Power(t) /\ ~Delete(t) /\ ~Write(t) /\ ~Refind(t)
  BY <1>1 DEF PoolPlaces, Find, Create, Power, Delete, Write, Refind
<1>3. ~Start(t) /\ ~TimeOut(t)
  BY DEF Start, TimeOut
<1>4. ~Page(t) /\ ~Poll(t)
  <2> SUFFICES ASSUME Page(t) \/ Poll(t) PROVE FALSE
    OBVIOUS
  <2>1. PICK k : Call(t, TRUE, inst, k)
    BY DEF Page, Poll, Read
  <2>2. inst' = inst
    BY <2>1 DEF Call
  <2> QED BY <2>2
<1>5. ~RunBatch(t)
  <2> SUFFICES ASSUME RunBatch(t) PROVE FALSE
    OBVIOUS
  <2>1. PICK n, p, b : inst' \in {inst, b} /\ b = Launched(n, p)
    BY DEF RunBatch, Call
  <2>2. b[i].killer = inst[i].killer
    BY <1>1, <2>1, LaunchedKills
  <2> QED BY <2>1, <2>2
<1>6. TerminateOldest(t)
  BY <1>2, <1>3, <1>4, <1>5 DEF Step
<1>7. inst' \in {inst, Killed(Head(task[t].doomed), t)}
  BY <1>6 DEF TerminateOldest, Call
<1>8. i = Head(task[t].doomed)
  <2> DEFINE h == Head(task[t].doomed)
  <2>1. \A j \in Ids \ {h} : Killed(h, t)[j] = inst[j]
    BY <1>1, KilledLasts
  <2> HIDE DEF h
  <2>2. inst' \in {inst, Killed(h, t)}
    BY <1>7 DEF h
  <2>3. i = h
    BY <2>1, <2>2
  <2> QED BY <2>3 DEF h
<1>9. task[t].doomed # <<>>
  BY <1>1, <1>6 DEF Onward, TerminateOldest
<1> QED BY <1>8, <1>9

-----------------------------------------------------------------------------
(* The invariant.                                                          *)

\* What a task for the pool goes by, and what it has to keep while it is at work
\* and has the pool to itself.
Sole(t) ==
  params[t].kind = "pool" =>
    /\ Onward(task[t]) /\ Paid(inst, task[t])
    /\ Alone(t) /\ task[t].pc # "done" => Duty(inst, task[t], params[t])

JInv ==
  /\ params \in [Tasks -> Param] /\ On(task, Tasks) /\ Dated(inst) /\ InTurn
  /\ \A t \in Tasks : Sole(t)

LEMMA JInvInit == CvmInit => JInv
<1> SUFFICES ASSUME CvmInit PROVE JInv
  OBVIOUS
<1>1. PICK s \in Scenarios : params = s.asks /\ inst = s.account
  BY DEF CvmInit
<1>2. s \in [asks : [Tasks -> Param], account : [Ids -> Inst]]
  BY CvmAssumption
<1>3. params \in [Tasks -> Param] /\ inst \in [Ids -> Inst]
  BY <1>1, <1>2
<1>4. task = [t \in Tasks |-> Begun]
  BY DEF CvmInit
<1>5. Dated(inst)
  <2>1. \A i \in Ids : On(inst[i], Columns) /\ inst[i].batch \in Nat
    BY <1>3 DEF Inst, On, Columns
  <2> QED BY <1>3, <2>1 DEF Dated, Rowed, On
<1>6. ASSUME NEW t \in Tasks PROVE Sole(t)
  <2> DEFINE k == task[t]
  <2>1. k = Begun
    BY <1>4
  <2> HIDE DEF k
  <2>2. /\ On(k, Known) /\ k.pc = "start" /\ k.seen = <<>> /\ k.offset = 0
        /\ k.batches = <<>> /\ k.doomed = <<>> /\ k.result = "none"
    BY <2>1 DEF Begun, On, Known
  <2>3. Onward(k) /\ Paid(inst, k)
    BY <2>2 DEF Onward, ForPool, PoolPlaces, Paid
  <2>4. Duty(inst, k, params[t])
    BY <2>2, <2>3, DutyBegins
  <2> QED BY <2>3, <2>4 DEF Sole, k
<1>7. On(task, Tasks) /\ InTurn
  BY <1>4 DEF On, InTurn, Begun
<1> QED BY <1>3, <1>5, <1>6, <1>7 DEF JInv

\* Whose turn it is, and what it then leaves.
LEMMA SoleMoves ==
  ASSUME JInv, NEW t \in Tasks, Step(t), params[t].kind = "pool"
  PROVE  Busy(t) /\ Moves(t)
<1>1. /\ params[t] \in Param /\ On(task, Tasks) /\ Dated(inst)
      /\ Onward(task[t]) /\ Paid(inst, task[t])
  BY DEF JInv, Sole
<1>2. task[t].pc # "done"
  BY <1>1, StepLasts
<1>3. Busy(t)
  BY <1>1, <1>2 DEF Busy
<1> QED BY <1>3, StepMoves

LEMMA JInvStep ==
  ASSUME JInv, NEW t \in Tasks, Step(t)
  PROVE  JInv'
<1>1. /\ params \in [Tasks -> Param] /\ On(task, Tasks) /\ Dated(inst) /\ InTurn
      /\ \A u \in Tasks : Sole(u)
  BY DEF JInv
<1>2. /\ On(task', Tasks) /\ \A u \in Tasks \ {t} : task'[u] = task[u]
      /\ params' = params /\ Lasts(inst, inst', t) /\ task[t].pc # "done"
  BY <1>1, StepLasts
<1>3. Dated(inst') /\ InTurn'
  BY <1>1, <1>2, TurnsKept DEF Lasts
<1>4. PICK b : b = inst'
  OBVIOUS
<1>5. ASSUME NEW u \in Tasks, params[u].kind = "pool"
      PROVE  /\ Onward(task'[u]) /\ Paid(b, task'[u])
             /\ Alone(u) /\ task'[u].pc # "done" => Duty(b, task'[u], params[u])
  <2>1. CASE u = t
    <3>1. Moves(t)
      BY <1>5, <2>1, SoleMoves
    <3>2. Onward(task'[t]) /\ Paid(b, task'[t])
          /\ (Duty(inst, task[t], params[t]) => Duty(b, task'[t], params[t]))
      BY <1>4, <3>1 DEF Moves
    <3> QED BY <1>1, <1>2, <1>5, <2>1, <3>2 DEF Sole
  <2>2. CASE u # t
    <3> DEFINE k == task[u]
    <3>1. /\ task'[u] = k /\ Onward(k) /\ Paid(inst, k)
          /\ Alone(u) /\ k.pc # "done" => Duty(inst, k, params[u])
      BY <1>1, <1>2, <1>5, <2>2 DEF Sole
    <3>2. Alone(u) => k.pc \in {"start", "done"} \/ b = inst
      BY <1>1, <1>4, <2>2, RestMeanwhile
    <3> HIDE DEF k
    <3>3. Lasts(inst, b, t)
      BY <1>2, <1>4
    <3>4. Paid(b, k)
      BY <3>1, <3>3, SamePaid
    <3>5. k.pc = "start" => Duty(b, k, params[u])
      BY <3>1, DutyBegins
    <3> QED BY <3>1, <3>2, <3>4, <3>5
  <2> QED BY <2>1, <2>2
<1>6. ASSUME NEW u \in Tasks PROVE Sole(u)'
  BY <1>2, <1>4, <1>5 DEF Sole, Alone
<1> QED BY <1>1, <1>2, <1>3, <1>6 DEF JInv

LEMMA JInvSettle ==
  ASSUME JInv, NEW i \in Ids, Settle(i)
  PROVE  JInv'
<1>1. /\ params \in [Tasks -> Param] /\ On(task, Tasks) /\ Dated(inst) /\ InTurn
      /\ \A u \in Tasks : Sole(u)
  BY DEF JInv
<1>2. params' = params /\ task' = task
  BY DEF Settle
<1>3. PICK b : b = inst'
  OBVIOUS
<1>4. /\ \A t : Lasts(inst, b, t)
      /\ Ever(b) = Ever(inst) /\ Leaving(b) \in SUBSET Leaving(inst)
      /\ Staying(b) = Staying(inst)
      /\ \A j \in Ids : b[j].batch = inst[j].batch
  BY <1>1, <1>3, SettledStay
<1>5. ASSUME NEW u \in Tasks, params[u].kind = "pool"
      PROVE  /\ Onward(task[u]) /\ Paid(b, task[u])
             /\ Alone(u) /\ task[u].pc # "done" => Duty(b, task[u], params[u])
  <2> DEFINE k == task[u]
             p == params[u]
  <2>1. /\ Onward(k) /\ Paid(inst, k)
        /\ Alone(u) /\ k.pc # "done" => Duty(inst, k, p)
    BY <1>1, <1>5 DEF Sole
  <2> HIDE DEF k, p
  <2>2. Paid(b, k)
    BY <1>4, <2>1, SamePaid
  <2>3. ASSUME Sees(inst, k) PROVE Sees(b, k)
    <3>1. Ripe(b, k)
      <4>1. \A n \in DOMAIN k.doomed : k.doomed[n] \in Ids
        BY <2>1 DEF Onward
      <4>2. Staying(inst) \in SUBSET Ids
        BY MembersAre
      <4> QED BY <1>4, <2>3, <4>1, <4>2 DEF Sees, Ripe
    <3>2. ASSUME k.pc = "count" PROVE Leaving(b) = {} /\ Walked(b, k)
      <4>1. Leaving(inst) = {} /\ Walked(inst, k)
        BY <2>3, <3>2 DEF Sees
      <4>2. Leaving(b) = {} /\ OnList(b) = OnList(inst)
        BY <1>4, <4>1, MembersAre
      <4>3. Top(b, k.offset) = Top(inst, k.offset)
        BY <4>2 DEF Top
      <4> QED BY <4>1, <4>2, <4>3 DEF Walked
    <3> QED BY <1>4, <2>3, <3>1, <3>2 DEF Sees
  <2>4. Exact(inst, k, p) => Exact(b, k, p)
    BY <1>4 DEF Exact
  <2>5. k.pc # "done" /\ Duty(inst, k, p) => Duty(b, k, p)
    BY <2>3, <2>4 DEF Duty
  <2> QED BY <2>1, <2>2, <2>5 DEF k, p
<1>6. ASSUME NEW u \in Tasks PROVE Sole(u)'
  BY <1>2, <1>3, <1>5 DEF Sole, Alone
<1>7. Dated(inst') /\ InTurn'
  BY <1>1, <1>2, <1>3, <1>4 DEF Lasts, InTurn
<1> QED BY <1>1, <1>2, <1>6, <1>7 DEF JInv

LEMMA JInvNext == JInv /\ [CvmNext]_cvmVars => JInv'
<1>1. ASSUME JInv, UNCHANGED cvmVars PROVE JInv'
  <2>1. params' = params /\ task' = task /\ inst' = inst
    BY <1>1 DEF cvmVars
  <2>2. \A t \in Tasks : Sole(t) => Sole(t)'
    BY <2>1 DEF Sole, Alone
  <2> QED BY <1>1, <2>1, <2>2 DEF JInv, InTurn
<1> QED BY <1>1, JInvStep, JInvSettle DEF CvmNext

\* Who takes the step that t's report, or a new name on an instance, shows.
LEMMA OwnStep ==
  ASSUME JInv, [CvmNext]_cvmVars, NEW t \in Tasks, params[t].kind = "pool",
         \/ task[t].pc # "done" /\ task'[t].result \in {"changed", "unchanged"}
         \/ \E i \in Ids : inst[i].killer # t /\ inst'[i].killer = t
  PROVE  Step(t)
<1>1. /\ On(task, Tasks) /\ Dated(inst)
      /\ task[t].pc # "done" => task[t].result = "none"
  BY DEF JInv, Sole, Onward
<1>2. ~UNCHANGED cvmVars
  BY <1>1 DEF cvmVars
<1>3. ASSUME NEW i \in Ids, Settle(i) PROVE FALSE
  <2>1. task' = task
    BY <1>3 DEF Settle
  <2>2. \A j \in Ids : inst'[j].killer = inst[j].killer
    BY <1>1, <1>3, SettledStay
  <2> QED BY <1>1, <2>1, <2>2
<1>4. PICK u \in Tasks : Step(u)
  BY <1>2, <1>3 DEF CvmNext
<1>5. CASE u # t
  <2>1. task'[t] = task[t] /\ Lasts(inst, inst', u)
    BY <1>1, <1>4, <1>5, StepLasts
  <2> QED BY <1>1, <1>5, <2>1 DEF Lasts
<1> QED BY <1>4, <1>5

\* A task that has the pool to itself, met nobody on the way out and lost no reply
\* reports success only with exact_count members (find_instances_by_tags,
\* _spread_counts, run_instances, terminate_instances): whatever the size of the
\* pool, the pages, the zones and the faults of the calls.
THEOREM ExactWhenAloneAlways == CvmSpec => ExactWhenAlone
<1> DEFINE A == \A t \in Tasks :
       /\ params[t].kind = "pool" /\ Alone(t) /\ task[t].clean
       /\ Reports(t, "changed") \/ Reports(t, "unchanged")
       /\ ~task'[t].lost
       => Cardinality(Pool') = params[t].count
<1>1. ASSUME JInv, [CvmNext]_cvmVars, NEW t \in Tasks, params[t].kind = "pool", Alone(t),
             task[t].clean, Reports(t, "changed") \/ Reports(t, "unchanged"), ~task'[t].lost
      PROVE  Cardinality(Pool') = params[t].count
  <2>1. /\ task[t].pc # "done" /\ task'[t].result \in {"changed", "unchanged"} /\ ~params[t].check
    BY <1>1 DEF Reports
  <2>2. Step(t)
    BY <1>1, <2>1, OwnStep
  <2>3. Moves(t)
    BY <1>1, <2>2, SoleMoves
  <2>4. Duty(inst, task[t], params[t])
    BY <1>1, <2>1 DEF JInv, Sole
  <2>5. /\ Onward(task'[t]) /\ Duty(inst', task'[t], params[t])
        /\ task'[t].pc = "done" => task'[t].clean = task[t].clean
    BY <2>3, <2>4 DEF Moves
  <2>6. task'[t].pc = "done"
    BY <2>1, <2>5 DEF Onward
  <2>7. Cardinality(Belonging(inst')) = params[t].count
    BY <1>1, <2>1, <2>5, <2>6 DEF Duty, Told
  <2>8. Pool' = Belonging(inst')
    BY DEF Pool, Listed, Belonging, OnList
  <2> QED BY <2>7, <2>8
<1>2. JInv /\ [CvmNext]_cvmVars => [A]_cvmVars
  BY <1>1
<1> QED BY <1>2, JInvInit, JInvNext, PTL DEF CvmSpec, ExactWhenAlone

\* The instance a task terminates to shrink the pool is none that is PREPAID, and
\* the oldest member left when the task has the pool to itself (the sort of
\* terminate_instances by CreatedTime).
THEOREM OldestFirstAlways == CvmSpec => OldestFirst
<1> DEFINE A == \A t \in Tasks, i \in Ids :
       /\ params[t].kind = "pool"
       /\ inst[i].killer = None /\ inst'[i].killer = t
       => /\ ~inst[i].prepaid
          /\ Alone(t) /\ task[t].clean => \A j \in Serving : inst[i].batch <= inst[j].batch
<1>1. ASSUME JInv, [CvmNext]_cvmVars, NEW t \in Tasks, NEW i \in Ids, params[t].kind = "pool",
             inst[i].killer = None, inst'[i].killer = t
      PROVE  /\ ~inst[i].prepaid
             /\ Alone(t) /\ task[t].clean => \A j \in Serving : inst[i].batch <= inst[j].batch
  <2> DEFINE d == task[t].doomed
  <2>1. inst[i].killer # t
    BY <1>1, CvmAssumption
  <2>2. Step(t)
    BY <1>1, <2>1, OwnStep
  <2>3. Busy(t)
    BY <1>1, <2>2, SoleMoves
  <2>4. d # <<>> /\ i = Head(d)
    BY <1>1, <2>1, <2>2, <2>3, KillsNext
  <2>5. Onward(task[t]) /\ Paid(inst, task[t]) /\ task[t].pc # "done"
    BY <2>3 DEF Busy
  <2>6. d \in Seq(Ids) /\ 1 \in DOMAIN d /\ i = d[1] /\ DOMAIN d \in SUBSET Nat
        /\ \A m \in DOMAIN d : ~(m < 1)
    <3>1. d \in Seq(Ids)
      BY <2>5 DEF Onward
    <3> HIDE DEF d
    <3> QED BY <2>4, <3>1, TailIs
  <2>7. ~inst[i].prepaid
    BY <2>5, <2>6 DEF Paid
  <2>8. ASSUME Alone(t), task[t].clean, NEW j \in Serving PROVE inst[i].batch <= inst[j].batch
    <3>1. Ripe(inst, task[t])
      BY <1>1, <2>5, <2>8 DEF JInv, Sole, Duty, Sees
    <3>2. j \in Staying(inst)
      BY <2>8, MembersAre
    <3> QED BY <2>6, <3>1, <3>2 DEF Ripe
  <2> QED BY <2>7, <2>8
<1>2. JInv /\ [CvmNext]_cvmVars => [A]_cvmVars
  BY <1>1
<1> QED BY <1>2, JInvInit, JInvNext, PTL DEF CvmSpec, OldestFirst

=============================================================================
