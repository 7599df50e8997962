------------------------------- MODULE MCVpc -------------------------------
(***************************************************************************)
(* Instances of VpcModule for TLC.  "prod" occurs in "prod-old"; the first *)
(* two ids may be taken when the run starts, the others are for CreateVpc. *)
(***************************************************************************)
EXTENDS VpcModule, TLC

CONSTANTS t1, t2, i1, i2, i3

MCTasks     == {t1, t2}
MCNames     == {"prod", "prod-old", "web"}
MCAttrs     == {"", "a", "b"}
MCTagKeys   == {1, 2}
MCTagVals   == {"x", "y"}
MCSubstring == {<<n, n>> : n \in MCNames} \cup {<<"prod", "prod-old">>}

TagsOf(a, b) == [k \in MCTagKeys |-> IF k = 1 THEN a ELSE b]
VpcOf(name, dns, domain, tags) == [name |-> name, dns |-> dns, domain |-> domain, tags |-> tags]

Ask(state, id, name, cidr, dns, domain, tags) ==
  [state |-> state, check |-> FALSE, id |-> id, name |-> name, cidr |-> cidr,
   dns |-> dns, domain |-> domain, tags |-> tags, after |-> {}]
Checked(p) == [p EXCEPT !.check = TRUE]

Prod    == VpcOf("prod", "a", "", TagsOf("x", None))
ProdOld == VpcOf("prod-old", "", "b", TagsOf("y", "y"))

Account(a, b) ==
  [i \in Ids |-> IF i = i1 THEN a ELSE IF i = i2 THEN b ELSE Unborn]

\* Nothing, one VPC, an exact and a fuzzy match, two exact ones.
MCAccounts == {Account(a, b) : a \in {Unborn, Prod}, b \in {Unborn, ProdOld, Prod}}

PresentByName == Ask("present", None, "prod", TRUE, "b", None, TagsOf("y", "x"))
PresentBare   == Ask("present", None, "prod", FALSE, None, "a", TagsOf(None, "y"))
PresentById   == Ask("present", i2, "prod", FALSE, None, None, TagsOf("y", None))
AbsentByName  == Ask("absent", None, "prod-old", FALSE, None, None, TagsOf(None, None))
AbsentById    == Ask("absent", i1, None, FALSE, None, None, TagsOf(None, None))
AbsentUnnamed == Ask("absent", None, None, FALSE, None, None, TagsOf(None, None))

Asked == {PresentByName, PresentBare, PresentById, AbsentByName, AbsentById, AbsentUnnamed}

\* The same task twice, or once in check mode and then for real.
Twice(p)       == (t1 :> p) @@ (t2 :> [p EXCEPT !.after = {t1}])
TwiceScenarios == UNION {{Twice(p), [Twice(p) EXCEPT ![t1] = Checked(p)]} : p \in Asked}

\* Any two tasks at the same time, as two plays or two hosts.
PairScenarios == {(t1 :> p) @@ (t2 :> q) : p \in Asked, q \in {PresentByName, AbsentById, AbsentByName}}

MCScenarios == TwiceScenarios \cup PairScenarios

\* The small scene in which the code departs from what it promises.
AbsentTwiceScenarios == {Twice(Ask("absent", None, "prod", FALSE, None, None, TagsOf(None, None)))}
FuzzyAccounts        == {Account(Prod, ProdOld)}

\* Errors after which the cloud has done nothing.
CleanFaults == {<<"RequestLimitExceeded", FALSE>>, <<"InternalError", FALSE>>, <<"ResourceInUse", FALSE>>}

NoFaults == {}

=============================================================================
