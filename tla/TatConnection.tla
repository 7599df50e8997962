---------------------------- MODULE TatConnection ----------------------------
(***************************************************************************)
(* The TAT connection plugin (plugins/connection/tat.py): commands are     *)
(* created, invoked and polled for through the API, and files go to the    *)
(* instance as chunks, each a command of its own, appended to a staging    *)
(* file that the last command decodes into place.                          *)
(*                                                                         *)
(* The API and the agent that runs the commands are external.  The agent   *)
(* runs an invocation when it likes: also after the connection gave it up, *)
(* or after the reply that named it was lost.  Lengths are in units of a   *)
(* chunk's share; a file is the sequence of its chunks.                    *)
(***************************************************************************)
EXTENDS Integers, Sequences, FiniteSets, Functions, SequencesExt

CONSTANTS
  Files,        \* local files: [name, chars], chars of their base64 form
  Scripts,      \* runs: the operations asked for, one after another
  MaxChars,     \* max_command_chars
  ChunkCap,     \* the plugin's own bound on a chunk (24000)
  Overhead,     \* printf, the quotes and the path around a chunk
  CacheMax,     \* commands kept in the cache (8)
  OutputMax,    \* chunks of output the API returns (64 KiB)
  FailedCodes,  \* exit codes of an invocation that did not end with SUCCESS
  Agent,        \* no become: commands run as the agent's user
  Root,         \* become_user root
  Users         \* other users to become

File   == [name : {f.name : f \in Files}, chars : Nat]
Op     == [kind : {"exec", "put", "fetch"}, what : {"id", "ps"}, file : Files,
           user : Users \cup {Agent, Root}]
Chunk  == IF MaxChars < ChunkCap THEN MaxChars ELSE ChunkCap

ASSUME TatAssumption ==
  /\ Files \subseteq File /\ Files # {}
  /\ Scripts \subseteq Seq(Op)
  /\ {MaxChars, ChunkCap, CacheMax, OutputMax} \subseteq Nat \ {0} /\ Overhead \in Nat
  /\ FailedCodes \subseteq 0 .. 255
  /\ Agent # Root /\ Agent \notin Users /\ Root \notin Users

VARIABLES
  script,   \* the operations
  op,       \* the operation that runs or is next
  pc,       \* "ready" | "ensure" | "invoke" | "poll"
  step,     \* the command of the operation that is its turn
  cache,    \* _command_cache: the id of the command with this content and user
  order,    \* _command_cache_order
  current,  \* the command id, then the invocation, that the operation holds
  cmds,     \* the commands the API knows
  invs,     \* their invocations
  disk,     \* the file put_file writes, and its staging file
  fetched,  \* what fetch_file wrote
  outcome,  \* how each operation ended
  calm,     \* no invocation that was given up could still run when it began
  seen      \* what the file held while the operation ran (history)

vars == <<script, op, pc, step, cache, order, current, cmds, invs, disk, fetched, outcome,
          calm, seen>>

NoFile   == <<<<"no", 0>>>>
Junk(f)  == <<<<f.name, 0>>>>
Pieces(f) == (f.chars + Chunk - 1) \div Chunk
Whole(f) == [n \in 1 .. Pieces(f) |-> <<f.name, n>>]

Init ==
  /\ script \in Scripts
  /\ op = 1 /\ pc = "ready" /\ step = 1 /\ current = 0
  /\ cache = <<>> /\ order = <<>> /\ cmds = <<>> /\ invs = <<>>
  /\ disk = [dest |-> NoFile, staging |-> NoFile]
  /\ fetched = NoFile
  /\ outcome = [n \in DOMAIN script |-> "none"]
  /\ calm = [n \in DOMAIN script |-> TRUE]
  /\ seen = {}

This == script[op]
LastStep == IF This.kind = "put" THEN Pieces(This.file) + 1 ELSE 1

\* Mutant: every chunk is appended.
PutAppending(f, n) ==
  IF n > Pieces(f) THEN [do |-> "decode", arg |-> f.name, n |-> 0, chars |-> Overhead]
  ELSE [do |-> "append", arg |-> f.name, n |-> n, chars |-> Overhead + 1]

\* The commands of put_file: the first chunk truncates the staging file.
PutCommand(f, n) ==
  IF n > Pieces(f) THEN [do |-> "decode", arg |-> f.name, n |-> 0, chars |-> Overhead]
  ELSE [do |-> IF n = 1 THEN "write" ELSE "append", arg |-> f.name, n |-> n,
        chars |-> Overhead + (IF n < Pieces(f) THEN Chunk ELSE f.chars - (n - 1) * Chunk)]

Content ==
  CASE This.kind = "put"   -> PutCommand(This.file, step)
    [] This.kind = "exec"  -> [do |-> "run", arg |-> This.what, n |-> 0, chars |-> Overhead]
    [] This.kind = "fetch" -> [do |-> "read", arg |-> "dest", n |-> 0, chars |-> Overhead]

\* Users the API takes as its default.
Given(user) == user \notin {Agent, Root}

-----------------------------------------------------------------------------
(* One operation.                                                          *)

End(result) ==
  /\ outcome' = [outcome EXCEPT ![op] = result]
  /\ op' = op + 1
  /\ pc' = "ready"

Abandoned == \E i \in DOMAIN invs : invs[i].status = "queued"

\* _connect: the plugin still has its cache, or it was closed or reset.
Begin ==
  /\ pc = "ready" /\ op <= Len(script)
  /\ pc' = "ensure" /\ step' = 1
  /\ \/ UNCHANGED <<cache, order>>
     \/ cache' = <<>> /\ order' = <<>> /\ cache # <<>>
  /\ calm' = [calm EXCEPT ![op] = ~Abandoned]
  /\ seen' = {disk.dest}
  /\ UNCHANGED <<script, op, current, cmds, invs, disk, fetched, outcome>>

\* Mutant: the cache is asked for the content alone.
KeyOfContent == [content |-> Content, user |-> Agent]

Key == [content |-> Content, user |-> This.user]

\* _ensure_command: from the cache; too long; created, and the oldest evicted;
\* or the API fails.
Ensure ==
  /\ pc = "ensure"
  /\ \/ /\ Key \in DOMAIN cache
        /\ current' = cache[Key] /\ pc' = "invoke"
        /\ UNCHANGED <<op, cache, order, cmds, outcome>>
     \/ /\ Key \notin DOMAIN cache /\ Content.chars <= MaxChars
        /\ cmds' = Append(cmds, [content |-> Content, user |-> This.user])
        /\ current' = Len(cmds')
        /\ LET full == Append(order, Key)
               over == Cardinality(DOMAIN cache) >= CacheMax
               keys == IF over THEN Tail(full) ELSE full
           IN  /\ order' = keys
               /\ cache' = [k \in ToSet(keys) |-> IF k = Key THEN current' ELSE cache[k]]
        /\ pc' = "invoke"
        /\ UNCHANGED <<op, outcome>>
     \/ /\ Key \notin DOMAIN cache
        /\ End("failed")
        /\ UNCHANGED <<cache, order, current, cmds>>
  /\ UNCHANGED <<script, step, invs, disk, fetched, calm, seen>>

\* The user that counts: the invocation's, or the command's.
RunsAs(c) == IF Given(This.user) THEN This.user
             ELSE IF Given(cmds[c].user) THEN cmds[c].user ELSE Agent

Invoked(c) == Append(invs, [op |-> op, content |-> cmds[c].content, user |-> RunsAs(c),
                            status |-> "queued", code |-> 0, ran |-> 0, output |-> NoFile])

\* Mutant: a call whose reply was lost is sent again.
InvokeAgain ==
  /\ pc = "invoke"
  /\ \/ invs' = Invoked(current) /\ current' = Len(invs') /\ pc' = "poll"
     \/ invs' = Invoked(current) /\ Len(invs) < 4 /\ UNCHANGED <<current, pc>>
  /\ UNCHANGED <<script, op, step, cache, order, cmds, disk, fetched, outcome, calm, seen>>

\* _invoke: the reply is lost, with or without the work; nothing is retried.
Invoke ==
  /\ pc = "invoke"
  /\ \/ invs' = Invoked(current) /\ current' = Len(invs') /\ pc' = "poll"
        /\ UNCHANGED <<op, outcome>>
     \/ invs' \in {invs, Invoked(current)} /\ End("failed") /\ UNCHANGED current
  /\ UNCHANGED <<script, step, cache, order, cmds, disk, fetched, calm, seen>>

\* Mutant: whatever has ended will do.
PassedEnded(i) == invs[i].status # "queued"

\* What counts as success to the caller: the exit code, whatever the state.
Passed(i) == invs[i].code = 0

\* The poll that finds the invocation ended: the next command, or the end.
Ended ==
  /\ pc = "poll" /\ invs[current].status # "queued"
  /\ IF Passed(current) /\ step < LastStep
     THEN step' = step + 1 /\ pc' = "ensure" /\ UNCHANGED <<op, outcome>>
     ELSE End(IF Passed(current) THEN "ok" ELSE "failed") /\ UNCHANGED step
  /\ fetched' = IF This.kind = "fetch" /\ Passed(current) THEN invs[current].output ELSE fetched
  /\ UNCHANGED <<script, cache, order, current, cmds, invs, disk, calm, seen>>

\* A poll fails, or the deadline has passed.
GiveUp ==
  /\ pc = "poll"
  /\ End("failed")
  /\ UNCHANGED <<script, step, cache, order, current, cmds, invs, disk, fetched, calm, seen>>

-----------------------------------------------------------------------------
(* The agent.                                                              *)

Append2(s, piece) == IF s = NoFile THEN <<piece>> ELSE Append(s, piece)

\* What a command does to the files; decode replaces the file by a rename.
Effect(c) ==
  CASE c.do = "write"  -> [disk EXCEPT !.staging = <<<<c.arg, c.n>>>>]
    [] c.do = "append" -> [disk EXCEPT !.staging = Append2(@, <<c.arg, c.n>>)]
    [] c.do = "decode" -> [dest |-> disk.staging, staging |-> NoFile]
    [] OTHER           -> disk

\* What a command that fails can leave behind.
Remains(c) ==
  {disk, Effect(c)} \cup
  CASE c.do = "write"  -> {[disk EXCEPT !.staging = <<<<c.arg, 0>>>>]}
    [] c.do = "append" -> {[disk EXCEPT !.staging = Append2(@, <<c.arg, 0>>)]}
    [] c.do = "decode" /\ disk.staging # NoFile -> {[disk EXCEPT !.dest = disk.staging]}
    [] OTHER           -> {}

\* Decoding or reading a file that is not there fails.
CanDo(c) == \/ c.do = "decode" /\ disk.staging # NoFile
            \/ c.do = "read" /\ disk.dest # NoFile
            \/ c.do \notin {"decode", "read"}

Output == IF Len(disk.dest) <= OutputMax THEN disk.dest ELSE SubSeq(disk.dest, 1, OutputMax)

Report(i, status, code, output) ==
  invs' = [invs EXCEPT ![i].status = status, ![i].code = code, ![i].ran = 1,
                       ![i].output = output]

AgentRuns(i) ==
  /\ invs[i].status = "queued"
  /\ LET c == invs[i].content
     IN  \/ CanDo(c) /\ disk' = Effect(c) /\ Report(i, "SUCCESS", 0, Output)
         \/ /\ disk' \in IF CanDo(c) THEN Remains(c) ELSE {disk}
            /\ \E code \in FailedCodes : Report(i, "FAILED", code, NoFile)
  /\ seen' = seen \cup {disk'.dest}
  /\ UNCHANGED <<script, op, pc, step, cache, order, current, cmds, fetched, outcome, calm>>

Next ==
  \/ Begin \/ Ensure \/ Invoke \/ Ended \/ GiveUp
  \/ \E i \in DOMAIN invs : AgentRuns(i)

Spec == Init /\ [][Next]_vars

-----------------------------------------------------------------------------
(* Properties.                                                             *)

\* The commands in the cache are those the list can evict, each once, and each
\* is the command of its content and user: what is invoked, under whichever
\* cached id, runs what its operation asked for, as the user it asked for.
RunsAsAsked ==
  /\ IsInjective(order) /\ ToSet(order) = DOMAIN cache /\ Len(order) <= CacheMax
  /\ \A i \in DOMAIN invs :
       LET o == script[invs[i].op]
       IN  /\ invs[i].user = IF Given(o.user) THEN o.user ELSE Agent
           /\ o.kind = "exec" => invs[i].content.arg = o.what

\* An operation is reported as done only after its command ran once, and no
\* operation ever runs its command twice, whatever replies are lost.
RunsOnce ==
  \A n \in DOMAIN script :
    LET mine == {i \in DOMAIN invs : invs[i].op = n}
    IN  /\ script[n].kind = "exec" => Cardinality(mine) <= 1
        /\ outcome[n] = "ok" => \A i \in mine : invs[i].ran = 1

\* When put_file returns, the file is whole, whatever an earlier transfer left
\* in the staging file, unless a command given up earlier could still run; an
\* empty file, which has no chunk that would truncate, is left out.  fetch_file
\* returns what the file held at some time while it ran, if the output of one
\* invocation holds it.
Delivered ==
  [][pc = "poll" /\ outcome'[op] = "ok" =>
       /\ This.kind = "put" /\ calm[op] /\ This.file.chars > 0 => disk.dest = Whole(This.file)
       /\ This.kind = "fetch" =>
            \E s \in seen : fetched' = s \/ (Len(s) > OutputMax /\ IsPrefix(fetched', s))]_vars

\* However transfers fail, the file on the instance is the old one or all of a
\* new one, as long as no operation began with a command still at large.
NeverTorn ==
  (\A n \in DOMAIN script : calm[n] /\ (script[n].kind = "put" => script[n].file.chars > 0)) =>
    disk.dest \in {NoFile} \cup {Whole(f) : f \in Files}

=============================================================================
