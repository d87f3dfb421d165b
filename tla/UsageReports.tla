---------------------------- MODULE UsageReports ----------------------------
(***************************************************************************)
(* What the program computes from the results of the Usage API: the live   *)
(* summary of the dashboard (usage_service.py), the rows a sync stores     *)
(* (upstream_adapter.py, database.py) and what is read from them: the      *)
(* daily history, the observations the alert rules see, the export.        *)
(*                                                                         *)
(* A result is a record of a project, a model name, a service tier and     *)
(* token counts.  The hour of a result is left out: all of a day's results *)
(* are summed.  Prices are integers per token.                             *)
(***************************************************************************)
EXTENDS Integers, Sequences, FiniteSetsExt, SequencesExt, Functions

CONSTANTS
  Models,       \* entries of the catalog: [id, aliases, group, enabled, eligible, price]
  Groups,       \* groups of the catalog
  Quota         \* group -> tokens a day

\* validate_catalog: a catalog that is not like this is not loaded.
ValidCatalog(models, groups, quota) ==
  /\ groups # {} /\ groups \subseteq {"standard", "mini"}
  /\ quota \in [groups -> Nat \ {0}]
  /\ \A m \in models :
       /\ m.group \in groups
       /\ {m.enabled, m.eligible} \subseteq BOOLEAN
       /\ m.price \in [{"input", "cached_input", "output"} -> Nat]
       /\ m.id \notin m.aliases
       /\ \A n \in models \ {m} :
            ({m.id} \union m.aliases) \intersect ({n.id} \union n.aliases) = {}

ASSUME CatalogAssumption == ValidCatalog(Models, Groups, Quota)

-----------------------------------------------------------------------------
(* Names                                                                   *)

\* build_index: entries by their id and their aliases.
Named(id) == {m \in Models : id \in {m.id} \union m.aliases}

NoEntry == [group |-> "none"]

\* find_model: the name as it is, or without its date suffix.  A name with
\* blanks around it is in the index in neither form.
FindModel(name) ==
  IF name.form = "blanks" \/ Named(name.id) = {} THEN NoEntry
  ELSE CHOOSE m \in Named(name.id) : TRUE

\* _dimension: what is stored has no blanks around it, and a service tier is
\* in lower case with hyphens.
StoredName(name) == [name EXCEPT !.form = IF @ = "blanks" THEN "plain" ELSE @]
StoredTier(tier) == [tier EXCEPT !.form = "canonical"]

\* is_incentivized, whatever the spelling.
IsIncentivized(tier) == tier.kind = "incentivized"

-----------------------------------------------------------------------------
(* The live summary                                                        *)

\* A result or a stored row of the model: a name, a tier and integer counts.
IsResult(r) ==
  /\ r.model = [id |-> r.model.id, form |-> r.model.form]
  /\ r.tier = [kind |-> r.tier.kind, form |-> r.tier.form]
  /\ r.input \in Int /\ r.cached \in Int /\ r.output \in Int /\ r.write \in Int

\* _token_count and the checks of summarize_usage and parse_usage_buckets.
WellFormed(r) == r.input >= 0 /\ r.output >= 0 /\ r.cached \in 0 .. r.input /\ r.write \in 0 .. r.input

Tokens(r) == r.input + r.output

\* Sum over a sequence of results of those that pass the test.
SumOf(results, Value(_), Test(_)) ==
  SumFunction([i \in DOMAIN results |-> IF Test(results[i]) THEN Value(results[i]) ELSE 0])

Complimentary(r) ==
  /\ IsIncentivized(r.tier)
  /\ FindModel(r.model) # NoEntry
  /\ FindModel(r.model).enabled /\ FindModel(r.model).eligible

\* estimate_cost
EstimateCost(r, price) ==
  (r.input - r.cached) * price.input + r.cached * price.cached_input + r.output * price.output

Priced(r) == FindModel(r.model) # NoEntry

\* summarize_usage
Summarize(results) ==
  [groups   |-> [g \in Groups |-> SumOf(results, Tokens,
                    LAMBDA r : Complimentary(r) /\ FindModel(r.model).group = g)],
   other    |-> SumOf(results, Tokens, LAMBDA r : ~Complimentary(r)),
   estimate |-> SumOf(results, LAMBDA r : EstimateCost(r, FindModel(r.model).price), Priced),
   unpriced |-> SumOf(results, Tokens, LAMBDA r : ~Priced(r)),
   partial  |-> SumOf(results, LAMBDA r : r.write, LAMBDA r : TRUE) > 0]

-----------------------------------------------------------------------------
(* The stored rows                                                         *)

KeyOf(r) == [project |-> r.project, model |-> StoredName(r.model), tier |-> StoredTier(r.tier)]

\* Mutant: a result with the key of an earlier one replaces it.
StoredRows_LastWins(results) ==
  {LET last == CHOOSE i \in DOMAIN results :
                 KeyOf(results[i]) = k
                 /\ \A j \in DOMAIN results : KeyOf(results[j]) = k => j <= i
   IN [key |-> k, input |-> results[last].input, cached |-> results[last].cached,
       output |-> results[last].output]
   : k \in {KeyOf(results[i]) : i \in DOMAIN results}}

\* reconcile_slice: results with one key are added up as they are staged.
StoredRows(results) ==
  {[key    |-> k,
    input  |-> SumOf(results, LAMBDA r : r.input,  LAMBDA r : KeyOf(r) = k),
    cached |-> SumOf(results, LAMBDA r : r.cached, LAMBDA r : KeyOf(r) = k),
    output |-> SumOf(results, LAMBDA r : r.output, LAMBDA r : KeyOf(r) = k)]
   : k \in {KeyOf(results[i]) : i \in DOMAIN results}}

SumRows(rows) == SumFunction([row \in rows |-> Tokens(row)])

\* query_usage and list_projects
RowsOf(rows, projects) == {row \in rows : row.key.project \in projects}
ProjectsOf(rows) == {row.key.project : row \in rows}

\* daily_usage counts a row for its group if the entry is eligible; unlike
\* summarize_usage it does not look at "enabled".
CountsForDay(row) ==
  /\ IsIncentivized(row.key.tier)
  /\ FindModel(row.key.model) # NoEntry
  /\ FindModel(row.key.model).eligible

DailyUsage(rows) ==
  LET counted == {row \in rows : CountsForDay(row)}
  IN [groups |-> [g \in Groups |->
                    SumRows({row \in counted : FindModel(row.key.model).group = g})],
      other  |-> SumRows(rows \ counted)]

\* _build_observations: what an alert rule on a group sees, for one project or all.
ObservedTokens(rows, g, projects) ==
  SumRows({row \in RowsOf(rows, projects) :
             /\ CountsForDay(row)
             /\ FindModel(row.key.model).enabled
             /\ FindModel(row.key.model).group = g})

\* build_export_records: a project id is exported masked or left out, its key stays.
Export(rows, policy) ==
  {[key    |-> row.key,
    tokens |-> Tokens(row),
    shown  |-> IF policy = "exclude" \/ row.key.project = "unattributed" THEN "" ELSE "masked"]
   : row \in rows}
=============================================================================
