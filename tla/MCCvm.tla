-------------------------------- MODULE MCCvm --------------------------------
(***************************************************************************)
(* Instances of CvmInstance for TLC.                                       *)
(***************************************************************************)
EXTENDS CvmInstance, TLC

CONSTANTS t1, t2

MCTasks  == {t1, t2}
MCNames  == {"web", "db"}
MCVals   == {"a", "b"}
MCFaults == {[done |-> TRUE, retry |-> TRUE], [done |-> FALSE, retry |-> FALSE]}
LostOnly == {[done |-> TRUE, retry |-> TRUE]}
NoFaults == {}

\* Nothing is named; "a" of the tags stands for the default, none.
NoWish     == [f \in Fields |-> IF f = "tags" THEN "a" ELSE None]
Wish(f, v) == [NoWish EXCEPT ![f] = v]

Ask(kind, id, name, count, zones, want) ==
  [kind |-> kind, check |-> FALSE, id |-> id, name |-> name, count |-> count,
   zones |-> zones, want |-> want, dry |-> FALSE, after |-> {}]
Exactly(n)       == Ask("pool", None, "web", n, 0, NoWish)
Spread(n, zones) == Ask("pool", None, "web", n, zones, NoWish)

Blank(i) == [state |-> "UNBORN", name |-> None, pool |-> FALSE, prepaid |-> FALSE, batch |-> 0,
             conf |-> [f \in Fields |-> "a"], asked |-> FALSE, killer |-> None]
Member(i, batch, prepaid) ==
  [Blank(i) EXCEPT !.state = "RUNNING", !.name = "web", !.pool = TRUE,
                   !.batch = batch, !.prepaid = prepaid]
Single(i, state) == [Blank(i) EXCEPT !.state = state, !.name = "db", !.batch = i]

\* n members, the last two of one batch; an old PREPAID one or none.
PoolOf(n, prepaid) ==
  [i \in Ids |-> IF i > n THEN Blank(i)
                 ELSE Member(i, IF i = n /\ n > 1 THEN n - 1 ELSE i, prepaid /\ i = n)]

Alone1(state) == [i \in Ids |-> IF i = 1 THEN Single(1, state) ELSE Blank(i)]

Then(p, q)    == (t1 :> p) @@ (t2 :> [q EXCEPT !.after = {t1}])
Besides(p, q) == (t1 :> p) @@ (t2 :> q)
Checked(p)    == [p EXCEPT !.check = TRUE]
Dry(p)        == [p EXCEPT !.dry = TRUE]

Whole   == [Wish("image", "a") EXCEPT !["type"] = "a", !["attributes"] = "b", !["tags"] = "b"]
Verbs   == {Ask(kind, None, "db", 0, 0, NoWish) : kind \in {"running", "stopped", "rebooted", "absent"}}
Resize  == Ask("present", 1, None, 0, 0, [Wish("type", "b") EXCEPT !["password"] = "b"])
Managed == Ask("present", None, "db", 0, 0, Whole)
Singles == Verbs \cup {Resize, Managed}

\* One play after another on a pool: it grows after a lost or a failed launch,
\* is spread over zones, shrinks by more than a page, meets a PREPAID member,
\* or one that is about to leave the list.
PoolRuns ==
  {[asks |-> Then(p, p), account |-> PoolOf(1, FALSE)] : p \in {Exactly(2), Spread(3, 2)}}
    \cup {[asks |-> Then(Exactly(3), Exactly(1)), account |-> PoolOf(0, FALSE)],
          [asks |-> Then(Exactly(1), Exactly(2)), account |-> PoolOf(3, FALSE)],
          [asks |-> Then(Checked(Exactly(2)), Exactly(1)), account |-> PoolOf(3, TRUE)],
          [asks |-> Then(Exactly(1), Exactly(1)),
           account |-> [PoolOf(3, FALSE) EXCEPT ![3].state = "TERMINATED"]]}

\* Two plays at once.
PoolRaces ==
  {[asks |-> Besides(Exactly(1), q), account |-> PoolOf(n, FALSE)] :
      q \in {Exactly(1), Exactly(2)}, n \in {0, 3}}

SingleRuns ==
  {[asks |-> Then(p, q), account |-> Alone1(s)] : p, q \in Singles, s \in {"RUNNING", "STOPPED"}}
    \cup {[asks |-> Then(p, Managed), account |-> PoolOf(0, FALSE)] :
            p \in {Managed, Dry(Managed), Checked(Managed)}}

MCScenarios == PoolRuns \cup PoolRaces \cup SingleRuns
=============================================================================
