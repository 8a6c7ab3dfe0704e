---------------------------- MODULE MatchReport ----------------------------
(***************************************************************************)
(* One player's statistics of one match, written down in every way that    *)
(* utils/match-stats.ts accepts: under the names of several generations of *)
(* servers, beside the score or within it, as a number, in a map of counts *)
(* or among free-form metrics.  A step writes one fact in another way.     *)
(***************************************************************************)
EXTENDS MatchStats

CONSTANTS
  CountOf,      \* fact -> how often it happened
  ReportModules,\* the modules of the match
  MaxUnusual    \* bound: facts not written the usual way

Facts == {"recruited", "built", "campaigns", "posted", "soldSoda"}

ASSUME ReportConstants ==
  /\ CountOf \in [Facts -> Nat \ {0}]
  /\ CountOf["soldSoda"] > 1

VARIABLE writing   \* fact -> its entries, by the place they stand in

Places == {"stats", "fields", "metrics"}
Writing(place, entries) == [p \in Places |-> IF p = place THEN entries ELSE <<>>]
One(key, n) == <<Entry(key, Num(n))>>

\* A number under one of its names.
Numbered(aliases, places, n) ==
  {Writing(place, One(<<a>>, n)) : place \in places, a \in ToSet(aliases)}

\* A map of counts under one of its names, or the same counts one by one.
Mapped(aliases, maps) ==
  {Writing(place, <<Entry(<<a>>, Rec(map))>>) : place \in {"stats", "fields"},
                                                a \in ToSet(aliases), map \in maps}
Listed(head, maps) ==
  {Writing(place, [i \in DOMAIN map |-> Entry(<<head>> \o map[i].key, map[i].val)]) :
     place \in {"stats", "metrics"}, map \in {m \in maps : Len(m) = 1}}
  \cup {Writing("stats", <<Entry(<<head>>, Rec(map))>>) : map \in {m \in maps : Len(m) = 1}}

Sodas(n) ==
  {One(<<name>>, n) : name \in {"soda", "coke", "Cola"}}
  \cup {One(<<"coke">>, n - 1) \o One(<<"Cola">>, 1)}

\* Every way a fact is accepted in.
Writings(fact, n) ==
  CASE fact = "recruited" ->
         Numbered(NumberAliases.hired_employees, Places, n)
    [] fact = "built" -> Numbered(NumberAliases.house_built, Places, n)
    [] fact = "campaigns" ->
         Numbered(NumberAliases.marketing_actions, Places, n)
         \cup {Writing("fields", One(<<"marketing_campaigns">>, n))}
    [] fact = "posted" ->
         Numbered(TypeAliases.mailbox, Places, n)
         \cup Mapped(MapAliases.marketing_type, {One(<<"mailbox">>, n)})
         \cup Listed("marketing_type", {One(<<"mailbox">>, n)})
         \cup Numbered(<<"mailbox_actions">>, {"stats", "metrics"}, n)
    [] fact = "soldSoda" -> Mapped(MapAliases.sold, Sodas(n)) \cup Listed("sold", Sodas(n))

AllOf(place) ==
  writing["recruited"][place] \o writing["built"][place] \o writing["campaigns"][place]
  \o writing["posted"][place] \o writing["soldSoda"][place]

\* The score as the portal receives it.
Report ==
  [fields |-> AllOf("fields"),
   stats |-> AllOf("stats") \o (IF AllOf("metrics") = <<>> THEN <<>>
                                ELSE <<Entry(<<"metrics">>, Rec(AllOf("metrics")))>>)]

\* The way today's backend writes them.
Usual ==
  [recruited |-> Writing("stats", One(<<"hired_employees">>, CountOf["recruited"])),
   built |-> Writing("metrics", One(<<"house_built">>, CountOf["built"])),
   campaigns |-> Writing("stats", One(<<"marketing_actions">>, CountOf["campaigns"])),
   posted |-> Writing("stats", <<Entry(<<"marketing_by_type">>, Rec(One(<<"mailbox">>, CountOf["posted"])))>>),
   soldSoda |-> Writing("stats", <<Entry(<<"sold">>, Rec(One(<<"soda">>, CountOf["soldSoda"])))>>)]

ReportInit == writing = Usual

\* Bound: at most MaxUnusual facts are written otherwise at once.
Rewrite(fact, w) ==
  /\ writing[fact] = Usual[fact]
  /\ Cardinality({f \in Facts : writing[f] # Usual[f]}) < MaxUnusual
  /\ writing' = [writing EXCEPT ![fact] = w]

Restore(fact) ==
  /\ writing[fact] # Usual[fact]
  /\ writing' = [writing EXCEPT ![fact] = Usual[fact]]

ReportNext == \E fact \in Facts :
          Restore(fact) \/ \E w \in Writings(fact, CountOf[fact]) : Rewrite(fact, w)

-----------------------------------------------------------------------------
(* Properties *)

KeyOf == [recruited |-> <<"hired_employees">>, built |-> <<"house_built">>,
          campaigns |-> <<"marketing_actions">>, posted |-> <<"marketing_type", "mailbox">>,
          soldSoda |-> <<"sold", "soda">>]

Context == [modules |-> ReportModules, employees |-> {}, milestones |-> {}]

Player == [userId |-> "player", score |-> Report, context |-> Context]

\* Somebody else at the table, of whom one thing is known that no table names.
Rival == [userId |-> "rival", context |-> Context,
          score |-> [fields |-> <<>>, stats |-> One(<<"zeppelins">>, 1)]]

HappenedTo(id, key) ==
  IF id = "rival" THEN (IF key = <<"zeppelins">> THEN 1 ELSE 0)
  ELSE IF \E f \in Facts : KeyOf[f] = key
  THEN CountOf[CHOOSE f \in Facts : KeyOf[f] = key] ELSE 0

\* The facts, each in a row of its own, and nothing in the other places.
Reference ==
  [key \in ExpectedMetricKeys(Context) \cup {KeyOf[f] : f \in Facts} \cup {<<"zeppelins">>} |->
     [id \in {"player", "rival"} |-> HappenedTo(id, key)]]

\* However a player's facts are written down, the table of the match is the
\* same: one row for each with its count, none twice, none lost, and zero for
\* whom it does not concern (match-stats.ts, buildMetricMap and
\* buildPlayerStatMatrixRows; the tests "supports multiple stats key styles"
\* and "aligns metrics by player columns and fills missing values with zero").
SameTableForEveryWriting == PlayerStatMatrix({Player, Rival}) = Reference

\* The fixed shape agrees with the rows.
NormalizedAgrees ==
  LET n == NormalizedPlayerStats(Report) IN
  /\ n.marketingActions = CountOf["campaigns"]
  /\ n.hiredEmployees = CountOf["recruited"]
  /\ n.trainedEmployees = 0 /\ n.billboardPlacements = 0
  /\ DOMAIN n.produced = {}
  /\ n.sold = [k \in {<<"soda">>} |-> CountOf["soldSoda"]]
=============================================================================
