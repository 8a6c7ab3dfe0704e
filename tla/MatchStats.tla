----------------------------- MODULE MatchStats -----------------------------
(***************************************************************************)
(* The statistics of a finished match as the portal reads them             *)
(* (utils/match-stats.ts): a player's score carries counts under names     *)
(* that changed over time; they are brought under one key each, completed  *)
(* with the rows the player could have earned, and laid out in a matrix.   *)
(*                                                                         *)
(* A key is the sequence of its parts ("sold:soda" is <<"sold", "soda">>). *)
(* A record is the sequence of its entries [key, val], in the order they   *)
(* were written; a value is a number, a record, or neither.                *)
(***************************************************************************)
EXTENDS Integers, Sequences, FiniteSets, SequencesExt, FiniteSetsExt

CONSTANT LowerOf   \* the names that are not written in lower case -> lower case

ASSUME StatsConstants == \A name \in DOMAIN LowerOf : LowerOf[name] \notin DOMAIN LowerOf

Num(n) == [t |-> "num", n |-> n, of |-> <<>>]
Rec(entries) == [t |-> "rec", n |-> 0, of |-> entries]
Other == [t |-> "other", n |-> 0, of |-> <<>>]

Lower(name) == IF name \in DOMAIN LowerOf THEN LowerOf[name] ELSE name

-----------------------------------------------------------------------------
(* Tables *)

NumberAliases ==
  [marketing_actions |-> <<"marketing_actions", "marketingActions", "marketing_count", "marketingCount">>,
   hired_employees |-> <<"hired_employees", "hiredEmployees", "recruit_count", "recruitCount">>,
   trained_employees |-> <<"trained_employees", "trainedEmployees", "train_count", "trainCount">>,
   house_built |-> <<"house_built", "houses_built", "house_build_count", "build_house_count",
                     "place_house_count", "house_placement_count">>,
   garden_built |-> <<"garden_built", "gardens_built", "build_garden_count", "place_garden_count">>,
   restaurant_built |-> <<"restaurant_built", "restaurants_built", "place_restaurant_count",
                          "new_restaurant_count">>,
   restaurant_moved |-> <<"restaurant_moved", "restaurants_moved", "move_restaurant_count">>,
   procurement_actions |-> <<"procurement_actions", "procurement_count", "procure_count">>,
   lobbyists_actions |-> <<"lobbyists_actions", "lobbyists_count", "lobbyist_actions">>]

MapAliases ==
  [produced |-> <<"produced", "produced_products", "producedProducts",
                  "production_counts", "productionCounts">>,
   sold |-> <<"sold", "sold_products", "soldProducts", "sales_counts", "salesCounts">>,
   marketing_type |-> <<"marketing_by_type", "marketingByType",
                        "marketing_type_counts", "marketingTypeCounts">>,
   metrics |-> <<"metrics", "counters", "extra_metrics", "extraMetrics">>]

Names(aliases) == {<<name>> : name \in UNION {ToSet(aliases[m]) : m \in DOMAIN aliases}}
ReservedStatsKeys == Names(NumberAliases) \cup Names(MapAliases)

\* Kinds of campaign that are also counted under a name of their own.
TypeAliases ==
  [billboard |-> <<"billboard_placements", "billboard_count", "place_billboard_count">>,
   mailbox |-> <<"mailbox_placements", "mailbox_count", "place_mailbox_count">>,
   radio |-> <<"radio_placements", "radio_count", "place_radio_count">>,
   airplane |-> <<"airplane_placements", "airplane_count", "place_airplane_count">>,
   gourmet_guide |-> <<"gourmet_guide_placements", "gourmet_guide_count">>,
   giant_billboard |-> <<"giant_billboard_placements", "giant_billboard_count",
                         "place_giant_billboard_count">>]

\* Names of a kind of campaign among the free-form metrics.
MetricTypeAliases ==
  [TypeAliases EXCEPT !.billboard = @ \o <<"billboard_actions">>,
                      !.mailbox = @ \o <<"mailbox_actions">>]

ModuleProducts ==
  [base_products |-> {"burger", "pizza", "lemonade", "soda", "beer"},
   coffee |-> {"coffee"}, kimchi |-> {"kimchi"}, noodles |-> {"noodles"}, sushi |-> {"sushi"}]

ModuleEmployees ==
  [base_employees |->
     {"brand_director", "brand_manager", "burger_chef", "burger_cook", "campaign_manager",
      "cart_operator", "ceo", "cfo", "coach", "discount_manager", "errand_boy",
      "executive_vice_president", "guru", "hr_director", "junior_vice_president",
      "kitchen_trainee", "local_manager", "luxury_manager", "management_trainee",
      "marketing_trainee", "new_business_developer", "pizza_chef", "pizza_cook",
      "pricing_manager", "recruiting_girl", "recruiting_manager", "regional_manager",
      "senior_vice_president", "trainer", "truck_driver", "vice_president", "waitress",
      "zeppelin_pilot"},
   coffee |-> {"barista", "barista_trainee", "lead_barista"},
   fry_chefs |-> {"fry_chef"}, gourmet_food_critics |-> {"gourmet_food_critic"},
   kimchi |-> {"kimchi_master"}, lobbyists |-> {"lobbyist"},
   mass_marketeers |-> {"mass_marketeer"},
   movie_stars |-> {"movie_star_b", "movie_star_c", "movie_star_d"},
   night_shift_managers |-> {"night_shift_manager"},
   noodles |-> {"noodle_chef", "noodle_cook"},
   rural_marketeers |-> {"rural_marketeer"}, sushi |-> {"sushi_chef", "sushi_cook"}]

\* What an employee's work counts towards, by the tag of the work.
Doing(tag) ==
  CASE tag = <<"recruit">> -> {"ceo", "hr_director", "recruiting_girl", "recruiting_manager"}
    [] tag = <<"train">> -> {"coach", "guru", "trainer"}
    [] tag = <<"place_house">> -> {"new_business_developer"}
    [] tag = <<"add_garden">> -> {"new_business_developer"}
    [] tag = <<"place_restaurant">> -> {"local_manager", "regional_manager"}
    [] tag = <<"move_restaurant">> -> {"regional_manager"}
    [] tag = <<"lobbyists">> -> {"lobbyist"}
    [] tag = <<"procure">> -> {"cart_operator", "errand_boy", "truck_driver", "zeppelin_pilot"}
    [] tag = <<"produce", "burger">> -> {"burger_chef", "burger_cook", "kitchen_trainee"}
    [] tag = <<"produce", "pizza">> -> {"kitchen_trainee", "pizza_chef", "pizza_cook"}
    [] tag = <<"produce", "coffee">> -> {"barista", "barista_trainee", "lead_barista"}
    [] tag = <<"produce", "noodles">> -> {"noodle_chef", "noodle_cook"}
    [] tag = <<"produce", "sushi">> -> {"sushi_chef", "sushi_cook"}
    [] tag = <<"marketing", "billboard">> ->
         {"brand_director", "brand_manager", "campaign_manager", "marketing_trainee"}
    [] tag = <<"marketing", "mailbox">> -> {"brand_director", "brand_manager", "campaign_manager"}
    [] tag = <<"marketing", "airplane">> -> {"brand_director", "brand_manager"}
    [] tag = <<"marketing", "radio">> -> {"brand_director"}
    [] tag = <<"marketing", "gourmet_guide">> -> {"gourmet_food_critic"}

UsageTags ==
  {<<"recruit">>, <<"train">>, <<"place_house">>, <<"add_garden">>, <<"place_restaurant">>,
   <<"move_restaurant">>, <<"lobbyists">>, <<"procure">>}
  \cup {<<"produce", p>> : p \in {"burger", "pizza", "coffee", "noodles", "sushi"}}
  \cup {<<"marketing", k>> : k \in {"billboard", "mailbox", "airplane", "radio", "gourmet_guide"}}

Sold(products) == {<<"sold", p>> : p \in products}
Campaigns(kinds) == {<<"marketing_actions">>} \cup {<<"marketing_type", k>> : k \in kinds}
Waited == Sold({"burger", "pizza", "lemonade", "soda", "coffee"})

MilestoneHints ==
  [first_airplane |-> Campaigns({"airplane"}), first_billboard |-> Campaigns({"billboard"}),
   first_radio |-> Campaigns({"radio"}),
   first_burger_marketed |-> Campaigns({}), first_drink_marketed |-> Campaigns({}),
   first_pizza_marketed |-> Campaigns({}), first_marketeer_used |-> Campaigns({}),
   first_marketing_trainee_used |-> Campaigns({"billboard"}),
   first_campaign_manager_used |-> Campaigns({"mailbox", "billboard"}),
   first_brand_manager_used |-> Campaigns({"airplane", "mailbox", "billboard"}),
   first_brand_director_used |-> Campaigns({"airplane", "radio"}),
   first_rural_marketeer_used |-> Campaigns({"giant_billboard"}),
   first_burger_produced |-> {<<"produced", "burger">>},
   first_pizza_produced |-> {<<"produced", "pizza">>},
   first_coffee_sold |-> Sold({"coffee"}), first_burger_sold |-> Sold({"burger"}),
   first_pizza_sold |-> Sold({"pizza"}), first_lemonade_sold |-> Sold({"lemonade"}),
   first_beer_sold |-> Sold({"beer"}), first_coke_sold |-> Sold({"soda"}),
   first_waitress_used |-> Waited, first_discount_manager_used |-> Waited,
   first_hire_3 |-> {<<"hired_employees">>}, first_recruiting_girl_used |-> {<<"hired_employees">>},
   first_train |-> {<<"trained_employees">>}, first_trainer_used |-> {<<"trained_employees">>},
   first_house_built |-> {<<"house_built">>}, first_new_restaurant |-> {<<"restaurant_built">>},
   first_cart_operator_used |-> {<<"procurement_actions">>}]

ModuleHints ==
  [mass_marketeers |-> Campaigns({}), rural_marketeers |-> Campaigns({"giant_billboard"})]

-----------------------------------------------------------------------------
(* Reading a record *)

NonNegativeInt(val) == IF val.t = "num" /\ val.n > 0 THEN val.n ELSE 0

Entry(key, val) == [key |-> key, val |-> val]
HasKey(record, key) == \E i \in DOMAIN record : record[i].key = key
ValueAt(record, key) == record[CHOOSE i \in DOMAIN record : record[i].key = key].val

\* Of several records and several names, the first record that has one of
\* them and the first name it has: later spellings are not looked at, even
\* when this one holds nothing.
Found(records, aliases) ==
  {p \in (DOMAIN records) \X (DOMAIN aliases) : HasKey(records[p[1]], <<aliases[p[2]]>>)}
Before(p, q) == p[1] < q[1] \/ (p[1] = q[1] /\ p[2] <= q[2])
Picked(records, aliases) ==
  LET found == Found(records, aliases)
      p == CHOOSE p \in found : \A q \in found : Before(p, q) IN
  IF found = {} THEN Other ELSE ValueAt(records[p[1]], <<aliases[p[2]]>>)

PickNumber(records, aliases) == NonNegativeInt(Picked(records, aliases))

-----------------------------------------------------------------------------
(* One key for each statistic *)

ProductAliases == [coke |-> "soda", cola |-> "soda"]
KindAliases == [x \in {"giant-billboard", "giantbillboard", "gourmet-guide", "gourmetguide"} |->
                  IF x \in {"giant-billboard", "giantbillboard"} THEN "giant_billboard"
                  ELSE "gourmet_guide"]

\* A product or a kind of campaign that is a single word may go by another.
Unalias(aliases, name) == IF name \in DOMAIN aliases THEN aliases[name] ELSE name
LowerKey(key) == [i \in DOMAIN key |-> Lower(key[i])]
CanonicalKey(aliases, key) ==
  IF Len(key) = 1 THEN <<Unalias(aliases, Lower(key[1]))>> ELSE LowerKey(key)
CanonicalProductKey(key) == CanonicalKey(ProductAliases, key)

\* The entries that count, under normalised keys: what meets is added up.
Counted(entries) == SelectSeq(entries, LAMBDA e : NonNegativeInt(e.val) > 0)
CountMap(val, aliases) ==
  LET es == Counted(val.of) IN
  [key \in {CanonicalKey(aliases, es[i].key) : i \in DOMAIN es} |->
     MapThenSumSet(LAMBDA i : es[i].val.n, {i \in DOMAIN es : CanonicalKey(aliases, es[i].key) = key})]
PickCountMap(records, names, aliases) == CountMap(Picked(records, names), aliases)

\* The statistics a free-form metric is a name for.
NamedIn(aliases, key) ==
  {m \in DOMAIN aliases : \E i \in DOMAIN aliases[m] : key = <<Lower(aliases[m][i])>>}

\* A free-form metric, under the key of the statistic it is a name for.
CanonicalMetricKey(rawKey) ==
  LET key == LowerKey(rawKey)
      number == NamedIn(NumberAliases, key)
      kind == NamedIn(MetricTypeAliases, key) IN
  CASE key[1] \in {"sold", "produced"} /\ Len(key) > 1 ->
         <<key[1]>> \o CanonicalProductKey(Tail(key))
    [] number # {} -> <<CHOOSE m \in number : TRUE>>
    [] number = {} /\ kind # {} -> <<"marketing_type", CHOOSE k \in kind : TRUE>>
    [] OTHER -> key

\* Of the entries that come under one key, the last one written holds.
LastByKey(es) ==
  [key \in {CanonicalMetricKey(es[i].key) : i \in DOMAIN es} |->
     es[Max({i \in DOMAIN es : CanonicalMetricKey(es[i].key) = key})].val.n]

DynamicEntriesOfAll(entry) ==
  IF NonNegativeInt(entry.val) > 0 THEN <<entry>>
  ELSE [i \in DOMAIN Counted(entry.val.of) |->
          LET e == Counted(entry.val.of)[i] IN Entry(entry.key \o e.key, e.val)]

\* What the statistics hold beyond the names the tables know.
DynamicEntries(entry) ==
  IF entry.key \in ReservedStatsKeys THEN <<>>
  ELSE IF NonNegativeInt(entry.val) > 0 THEN <<entry>>
  ELSE [i \in DOMAIN Counted(entry.val.of) |->
          LET e == Counted(entry.val.of)[i] IN Entry(entry.key \o e.key, e.val)]
DynamicStats(stats) == LastByKey(FlattenSeq([i \in DOMAIN stats |-> DynamicEntries(stats[i])]))

-----------------------------------------------------------------------------
(* A player's statistics: key -> count *)

Positive(f) == [k \in {x \in DOMAIN f : f[x] > 0} |-> f[k]]
Under(head, f) == [k \in {<<head>> \o x : x \in DOMAIN f} |-> f[Tail(k)]]
Single(name, n) == [k \in {<<name>>} |-> n]
StatOf(record, name) == IF HasKey(record, <<name>>) THEN NonNegativeInt(ValueAt(record, <<name>>)) ELSE 0

\* Of several maps, the first that has a key says what it stands for.
FirstOf(maps) ==
  [key \in UNION {DOMAIN maps[i] : i \in DOMAIN maps} |->
     maps[Min({i \in DOMAIN maps : key \in DOMAIN maps[i]})][key]]

\* A player without a score has no statistics.
MetricMap(score) ==
  LET records == <<score.stats, score.fields>>
      numbers == Positive([k \in {<<m>> : m \in DOMAIN NumberAliases} |->
                             PickNumber(records, NumberAliases[k[1]])])
      produced == PickCountMap(records, MapAliases.produced, ProductAliases)
      sold == PickCountMap(records, MapAliases.sold, ProductAliases)
      byType == PickCountMap(records, MapAliases.marketing_type, KindAliases)
      types == Positive([k \in {<<"marketing_type", kind>> : kind \in DOMAIN TypeAliases} |->
                           PickNumber(records, TypeAliases[k[2]])])
      extra == LastByKey(Counted(Picked(records, MapAliases.metrics).of))
      fallback == Positive(FirstOf(
        <<Single("marketing_actions", StatOf(score.fields, "marketing_campaigns")),
          Single("hired_employees", StatOf(score.stats, "recruit_used")),
          Single("trained_employees", StatOf(score.stats, "train_used"))>>))
  IN FirstOf(<<extra, numbers,
               Under("produced", produced), Under("sold", sold), Under("marketing_type", byType),
               types, fallback, DynamicStats(score.stats)>>)

MetricKeysFromUsageTag(tag) ==
  CASE tag[1] = "recruit" -> {<<"hired_employees">>}
    [] tag[1] = "train" -> {<<"trained_employees">>}
    [] tag[1] = "place_house" -> {<<"house_built">>}
    [] tag[1] = "add_garden" -> {<<"garden_built">>}
    [] tag[1] = "place_restaurant" -> {<<"restaurant_built">>}
    [] tag[1] = "move_restaurant" -> {<<"restaurant_moved">>}
    [] tag[1] = "lobbyists" -> {<<"lobbyists_actions">>}
    [] tag[1] = "procure" -> {<<"procurement_actions">>}
    [] tag[1] = "produce" -> {<<"produced">> \o CanonicalProductKey(<<tag[2]>>)}
    [] tag[1] = "marketing" -> Campaigns({tag[2]})

HintsOf(table, ids) == UNION {table[id] : id \in ids \cap DOMAIN table}

\* The rows a player gets even at zero: what the modules, the employees and
\* the milestones of the match make possible.
ExpectedMetricKeys(context) ==
  LET modules == context.modules \cup {"base_products"}
      employees == context.employees \cup HintsOf(ModuleEmployees, modules)
      products == HintsOf(ModuleProducts, modules) IN
  {<<head, p>> : head \in {"produced", "sold"}, p \in products}
  \cup HintsOf(ModuleHints, modules)
  \cup UNION {MetricKeysFromUsageTag(tag) : tag \in {t \in UsageTags : Doing(t) \cap employees # {}}}
  \cup HintsOf(MilestoneHints, context.milestones)

PlayerStatRows(score, context) ==
  FirstOf(<<MetricMap(score), [key \in ExpectedMetricKeys(context) |-> 0]>>)

\* One row for each statistic of any player, a number in it for each player.
PlayerStatMatrix(participants) ==
  LET rows == [p \in participants |-> PlayerStatRows(p.score, p.context)] IN
  [key \in UNION {DOMAIN rows[p] : p \in participants} |->
     [id \in {p.userId : p \in participants} |->
        LET p == CHOOSE p \in participants : p.userId = id IN
        IF key \in DOMAIN rows[p] THEN rows[p][key] ELSE 0]]

\* The same statistics in the fixed shape other callers use.
NormalizedPlayerStats(score) ==
  LET metrics == MetricMap(score)
      At(key) == IF key \in DOMAIN metrics THEN metrics[key] ELSE 0
      Part(head) == [k \in {Tail(x) : x \in {y \in DOMAIN metrics : y[1] = head /\ Len(y) > 1}} |->
                       metrics[<<head>> \o k]] IN
  [marketingActions |-> At(<<"marketing_actions">>),
   billboardPlacements |-> At(<<"marketing_type", "billboard">>),
   hiredEmployees |-> At(<<"hired_employees">>),
   trainedEmployees |-> At(<<"trained_employees">>),
   produced |-> Part("produced"), sold |-> Part("sold")]
=============================================================================
