---------------------------- MODULE ResultTables ----------------------------
(***************************************************************************)
(* The tables of a stored result and what the simulator computes on them:  *)
(* the violations of one contingency scenario, found on the way by         *)
(* evaluate_constraints (constraints.py) and again, on request, from the   *)
(* stored result by evaluate_result_violations (derived_results.py); their *)
(* ranking; and the readers that filter, sort, page, aggregate and compare *)
(* rows (results.py, and operations.py for the tables of a model).         *)
(*                                                                         *)
(* Abstractions.  Each element has one quantity, the voltage of a bus or   *)
(* the loading of a branch, and quantities are small numbers.  A           *)
(* constraint reference is the group it is the digest of.  Fields that     *)
(* are refused because they do not exist are left out.                     *)
(***************************************************************************)
EXTENDS Integers, Sequences, FiniteSets, SequencesExt

CONSTANTS
    None,
    BusRows,        \* the buses, in the order of their table
    BranchRows,     \* lines and transformers, as evaluate_result_violations goes
    KindOf,         \* branch -> "line", "trafo" or "trafo3w"
    TextOrder,      \* element, value or None -> place of its text among the texts
    Value,          \* values of a quantity
    Models,         \* limits of the model: [lower, upper : element -> limit or None]
    TableSets,      \* the tables a result may have: sets of "bus" and branch kinds
    AskedTypes,     \* violation_types an agent may ask for, non_convergence left out
    Weights,        \* severity weights an agent may ask for
    PageCap,        \* the most rows of one answer
    PageLimit,      \* limits an agent may ask for
    MaxOffset       \* bound: offset of a first page

VARIABLES
    model,          \* the limits
    method,         \* "ac" or "dc"
    value,          \* element -> value of its quantity in the result, or None
    tables,         \* the tables of the result
    scenario,       \* what the study reported, None before
    violations,     \* what the evaluation stored, None before
    risk,           \* what the ranking stored, None before
    reading         \* the reader at work, None before

tableVars == <<model, method, value, tables, scenario, violations, risk, reading>>

Element == Range(BusRows) \cup Range(BranchRows)
IsBus(e) == e \in Range(BusRows)
Quantity(e) == IF IsBus(e) THEN "bus.vm_pu" ELSE "branch.loading_percent"
TableOf(e)  == IF IsBus(e) THEN "bus" ELSE KindOf[e]

-----------------------------------------------------------------------------
(* The limits of a model *)

\* _groups: an element without limits is in no group, and only buses have a
\* lower one
Lower(e) == IF IsBus(e) THEN model.lower[e] ELSE None
HasBound(e) == TableOf(e) # "trafo3w" /\ (Lower(e) # None \/ model.upper[e] # None)

\* _summary: the identity a constraint reference is the digest of
Constraint(e) ==
    [table |-> TableOf(e), lower |-> Lower(e), upper |-> model.upper[e],
     members |-> {d \in Element : /\ HasBound(d) /\ TableOf(d) = TableOf(e)
                                  /\ Lower(d) = Lower(e) /\ model.upper[d] = model.upper[e]}]

\* extract_model_constraints, which run_n_minus_one empties of the voltage
\* limits when the study is a DC one
Constrained(dc) == {e \in Element : HasBound(e) /\ ~(dc /\ IsBus(e))}

\* evaluation_summary
Defined(constrained) == {Quantity(e) : e \in constrained}

-----------------------------------------------------------------------------
(* Violations *)

Below(e) == Lower(e) # None /\ value[e] # None /\ value[e] < Lower(e)
Above(e) == model.upper[e] # None /\ value[e] # None /\ value[e] > model.upper[e]

Violation(e, kind, limit, severity) ==
    [kind |-> kind, asset |-> e, value |-> value[e], limit |-> limit,
     severity |-> severity, constraint |-> Constraint(e)]
Low(e)  == Violation(e, "bus_voltage_low", Lower(e), "warning")
High(e) == Violation(e, "bus_voltage_high", model.upper[e], "warning")
Overload(e, kind) == Violation(e, kind, model.upper[e], "critical")

\* evaluate_constraints, over the rows of the power flow.  The faulty variant
\* takes a value at its limit for a violation.
ReachedLimits(constrained) ==
    {Overload(e, "line_overload") : e \in {b \in constrained : ~IsBus(b) /\ Above(b)}} \cup
    {Low(e)  : e \in {b \in constrained : IsBus(b) /\ Below(b)}} \cup
    {High(e) : e \in {b \in constrained : /\ IsBus(b) /\ model.upper[b] # None
                                          /\ value[b] # None /\ value[b] >= model.upper[b]}}
ScenarioViolations(constrained) ==
    {Overload(e, "line_overload") : e \in {b \in constrained : ~IsBus(b) /\ Above(b)}} \cup
    {Low(e)  : e \in {b \in constrained : IsBus(b) /\ Below(b)}} \cup
    {High(e) : e \in {b \in constrained : IsBus(b) /\ Above(b)}}

\* evaluate_result_violations, over the tables that were stored
BusViolations(e)    == (IF Below(e) THEN <<Low(e)>> ELSE <<>>) \o
                       (IF Above(e) THEN <<High(e)>> ELSE <<>>)
BranchViolations(e) == IF KindOf[e] \in tables /\ HasBound(e) /\ Above(e)
                         THEN <<Overload(e, "branch_loading_high")>> ELSE <<>>
Each(rows, Of(_))   == FlattenSeq([i \in DOMAIN rows |-> Of(rows[i])])
StoredViolations ==
    (IF "bus" \in tables THEN Each(BusRows, BusViolations) ELSE <<>>) \o
    Each(BranchRows, BranchViolations)

\* The quantities the evaluation reports as evaluated
Evaluated == (IF "bus" \in tables THEN {"bus.vm_pu"} ELSE {}) \cup
             (IF tables \ {"bus"} # {} THEN {"branch.loading_percent"} ELSE {})

-----------------------------------------------------------------------------
(* Readers of rows *)

\* Python's sorted, which keeps equal rows in their order: row i of the result
\* is the row that i - 1 others come before.
SortedBy(rows, Less(_, _)) ==
    LET before(i, j) == Less(rows[i], rows[j]) \/ (~Less(rows[j], rows[i]) /\ i < j)
        place(i)     == Cardinality({j \in DOMAIN rows : before(j, i)}) + 1
    IN  [k \in DOMAIN rows |-> rows[CHOOSE i \in DOMAIN rows : place(i) = k]]

\* _sort_rows, _sort_key: a missing value is the greatest
Smaller(a, b) == a # None /\ (b = None \/ a < b)
SortRows(rows, sort) ==
    LET ascending(r, s)  == Smaller(r.value, s.value)
        descending(r, s) == Smaller(s.value, r.value)
    IN  CASE sort = "ascending"  -> SortedBy(rows, ascending)
          [] sort = "descending" -> SortedBy(rows, descending)
          [] OTHER               -> rows

\* _matches, _predicate_matches: an order holds of no missing value
Matches(actual, operator, expected) ==
    CASE operator = "eq" -> actual = expected
      [] operator = "ne" -> actual # expected
      [] operator = "gt" -> actual # None /\ expected # None /\ actual > expected
      [] operator = "lte" -> actual # None /\ expected # None /\ actual <= expected

Filtered(rows, filter) ==
    IF filter = None THEN rows
    ELSE LET keeps(r) == Matches(r.value, filter.operator, filter.value)
         IN  SelectSeq(rows, keeps)

\* The rows of one page, and where the next one starts.  The faulty variant
\* counts the rows that were asked for instead of those given.
PageOf(rows, offset, limit) ==
    SubSeq(rows, offset + 1, IF offset + limit < Len(rows) THEN offset + limit ELSE Len(rows))
Capped(limit) == IF limit < PageCap THEN limit ELSE PageCap
FirstRows(rows, limit) == PageOf(rows, 0, Capped(limit))
NextByAsked(rows, offset, limit) ==
    IF offset + limit < Len(rows) THEN offset + limit ELSE None
NextOffset(rows, offset, limit) ==
    LET given == Len(PageOf(rows, offset, Capped(limit)))
    IN  IF offset + given < Len(rows) THEN offset + given ELSE None

\* The tables an agent may read: of the buses, of violations, of risks
ElementRow(e) == [asset |-> e, value |-> value[e]]
Datasets ==
    (IF "bus" \in tables THEN {"bus"} ELSE {}) \cup
    (IF violations # None THEN {"violation"} ELSE {}) \cup
    (IF risk # None /\ risk.stored # None THEN {"risk"} ELSE {})
RowsOf(dataset) ==
    CASE dataset = "bus"       -> [i \in DOMAIN BusRows |-> ElementRow(BusRows[i])]
      [] dataset = "violation" -> violations.rows
      [] dataset = "risk"      -> risk.stored

-----------------------------------------------------------------------------
(* Aggregation and comparison *)

Numbers(rows) == SelectSeq([i \in DOMAIN rows |-> rows[i].value], LAMBDA v : v # None)

\* _aggregate, two of its five operations: the sum is None without a number
Aggregate(rows) ==
    LET numbers == Numbers(rows)
    IN  [count |-> Len(rows),
         sum   |-> IF numbers = <<>> THEN None ELSE FoldSeq(+, 0, numbers)]

\* where, the equalities that aggregate and compare take
Where(rows, where) ==
    IF where = None THEN rows
    ELSE LET keeps(r) == r[where.field] = where.value IN SelectSeq(rows, keeps)

\* aggregate: the groups of the rows by the value of a field, in the order they
\* appear in.  Without a field there is one group, also of no rows.
GroupKey(row, by) == IF by = None THEN None ELSE row[by]
Groups(rows, by) ==
    LET first(i) == \A j \in 1..(i - 1) : GroupKey(rows[j], by) # GroupKey(rows[i], by)
        firsts   == SetToSortSeq({i \in DOMAIN rows : first(i)}, <)
        keys     == IF by = None THEN <<None>>
                    ELSE [n \in DOMAIN firsts |-> GroupKey(rows[firsts[n]], by)]
        of(k)    == SelectSeq(rows, LAMBDA r : GroupKey(r, by) = k)
    IN  [n \in DOMAIN keys |-> [key |-> keys[n]] @@ Aggregate(of(keys[n]))]

\* The answer of aggregate: no offset leads to the groups behind the limit.  The
\* faulty variant counts the groups it returns instead of those there are.
AnswerCounted(rows, by, limit) ==
    LET shown == FirstRows(Groups(rows, by), limit)
    IN  [groups |-> Len(shown), rows |-> shown]
AggregateAnswer(rows, by, limit) ==
    LET groups == Groups(rows, by)
    IN  [groups |-> Len(groups), rows |-> FirstRows(groups, limit)]

\* _row_key; compare keeps the last row of a key
LastOf(rows, key, k) ==
    LET of == {i \in DOMAIN rows : rows[i][key] = k}
    IN  rows[CHOOSE i \in of : \A j \in of : j <= i]

Delta(a, b) == IF a = None \/ b = None THEN None ELSE b - a

\* compare: the keys that both have, in the order of their texts; where applies to
\* the rows of the base only.  The faulty variant applies it to both.
Compared(base, candidate, key) ==
    LET common == {base[i][key] : i \in DOMAIN base} \cap
                  {candidate[i][key] : i \in DOMAIN candidate}
        keys   == SetToSortSeq(common, LAMBDA k, l : TextOrder[k] < TextOrder[l])
        b(k)   == LastOf(base, key, k).value
        c(k)   == LastOf(candidate, key, k).value
    IN  [n \in DOMAIN keys |-> [key |-> keys[n], base |-> b(keys[n]),
                                candidate |-> c(keys[n]), delta |-> Delta(b(keys[n]), c(keys[n]))]]
CompareFiltered(base, candidate, key, where) ==
    Compared(Where(base, where), Where(candidate, where), key)
CompareRows(base, candidate, key, where) == Compared(Where(base, where), candidate, key)

-----------------------------------------------------------------------------
(* Steps *)

\* _run_contingency_scenario, after its power flow: all tables are stored, and
\* the scenario reports the types of violations that were asked for
\* (_filter_violations).  It is the result that is evaluated afterwards.
Study ==
    /\ scenario = None /\ violations = None /\ reading = None
    /\ \E types \in AskedTypes :
          LET constrained == Constrained(method = "dc")
          IN  scenario' = [violations |-> {v \in ScenarioViolations(constrained) : v.kind \in types},
                           types      |-> types,
                           evaluated  |-> Defined(constrained)]
    /\ UNCHANGED <<model, method, value, tables, violations, risk, reading>>

\* evaluate_result_violations
Evaluate ==
    /\ violations = None /\ reading = None
    /\ violations' = [rows |-> StoredViolations, evaluated |-> Evaluated]
    /\ UNCHANGED <<model, method, value, tables, scenario, risk, reading>>

\* rank_result_risk: by falling score, then by reference.  The score is the
\* relative deviation times the weight, kept as a fraction.
Deviation(v) == IF v.value > v.limit THEN v.value - v.limit ELSE v.limit - v.value
Riskier(weights, v, w) ==
    LET parts(x) == [above |-> Deviation(x) * weights[x.severity],
                     below |-> IF x.limit = 0 THEN 1 ELSE x.limit]
        pv == parts(v)
        pw == parts(w)
    IN  \/ pv.above * pw.below > pw.above * pv.below
        \/ /\ pv.above * pw.below = pw.above * pv.below
           /\ TextOrder[v.asset] < TextOrder[w.asset]
Ranked(rows, weights) == SortedBy(rows, LAMBDA v, w : Riskier(weights, v, w))

\* The whole ranking is stored, and its first rows are the answer.  A table
\* without rows has no columns and is not stored.
RankRisk ==
    /\ violations # None /\ risk = None /\ reading = None
    /\ \E weights \in Weights, limit \in PageLimit :
          LET ranked == Ranked(violations.rows, weights)
          IN  risk' = [stored  |-> IF ranked = <<>> THEN None ELSE ranked,
                       count   |-> Len(ranked),
                       answer  |-> FirstRows(ranked, limit),
                       weights |-> weights, limit |-> limit]
    /\ UNCHANGED <<model, method, value, tables, scenario, violations, reading>>

\* query: the first page, from any offset
Query ==
    /\ reading = None
    /\ \E dataset \in Datasets, sort \in {"ascending", "descending", None},
          filter \in {None} \cup [operator : {"eq", "ne", "gt", "lte"}, value : Value],
          limit \in PageLimit, offset \in 0..MaxOffset :
          LET rows == SortRows(Filtered(RowsOf(dataset), filter), sort)
          IN  reading' = [at |-> "query", dataset |-> dataset, sort |-> sort, filter |-> filter,
                          start |-> offset, got |-> PageOf(rows, offset, Capped(limit)),
                          next |-> NextOffset(rows, offset, limit)]
    /\ UNCHANGED <<model, method, value, tables, scenario, violations, risk>>

\* query again at next_offset, with any limit
NextPage ==
    /\ reading # None /\ reading.at = "query" /\ reading.next # None
    /\ \E limit \in PageLimit :
          LET rows == SortRows(Filtered(RowsOf(reading.dataset), reading.filter), reading.sort)
          IN  reading' = [reading EXCEPT
                 !.got  = @ \o PageOf(rows, reading.next, Capped(limit)),
                 !.next = NextOffset(rows, reading.next, limit)]
    /\ UNCHANGED <<model, method, value, tables, scenario, violations, risk>>

AggregateRows ==
    /\ reading = None /\ violations # None
    /\ \E by \in {"limit", "asset", None}, limit \in PageLimit,
          where \in {None} \cup [field : {"severity"}, value : {"warning", "critical"}] :
          reading' = [at |-> "aggregate", by |-> by, where |-> where, limit |-> limit,
                      answer |-> AggregateAnswer(Where(violations.rows, where), by, limit)]
    /\ UNCHANGED <<model, method, value, tables, scenario, violations, risk>>

\* compare, with the result of another run on the same buses or some of them
CompareResults ==
    /\ reading = None /\ "bus" \in tables
    /\ \E shown \in SUBSET Range(BusRows) : \E other \in [shown -> Value \cup {None}] :
       \E key \in {"asset", "value"}, limit \in PageLimit,
          where \in {None} \cup [field : {"asset"}, value : Range(BusRows)]
                            \cup [field : {"value"}, value : Value] :
          LET buses == SelectSeq(BusRows, LAMBDA e : e \in shown)
              rows  == [i \in DOMAIN buses |-> [asset |-> buses[i], value |-> other[buses[i]]]]
              all   == CompareRows(RowsOf("bus"), rows, key, where)
          IN  reading' = [at |-> "compare", other |-> other, key |-> key, where |-> where,
                          limit |-> limit, matched |-> Len(all), rows |-> FirstRows(all, limit)]
    /\ UNCHANGED <<model, method, value, tables, scenario, violations, risk>>

TablesInit ==
    /\ model \in Models
    /\ method \in {"ac", "dc"}
    /\ value \in [Element -> Value \cup {None}]
    /\ tables \in TableSets
    /\ scenario = None /\ violations = None /\ risk = None /\ reading = None

TablesNext == Study \/ Evaluate \/ RankRisk \/ Query \/ NextPage \/ AggregateRows \/ CompareResults

TablesSpec == TablesInit /\ [][TablesNext]_tableVars

-----------------------------------------------------------------------------
(* Properties *)

\* The two evaluations of the same result agree (constraints.py
\* evaluate_constraints, derived_results.py evaluate_result_violations): of the
\* types a study was asked for, the scenario reports the elements that violate
\* the same constraints by the same values as the stored tables do, each once
\* and no other.  A DC study reports no voltages.
StudiedKind(v) == IF v.kind = "branch_loading_high" THEN "line_overload" ELSE v.kind
EvaluationsAgree ==
    scenario # None /\ violations # None =>
       LET named(v) == [v EXCEPT !.kind = StudiedKind(v)]
           stored   == {named(v) : v \in {w \in Range(violations.rows) :
                                             /\ method = "dc" => ~IsBus(w.asset)
                                             /\ StudiedKind(w) \in scenario.types}}
       IN  /\ stored = {v \in scenario.violations : TableOf(v.asset) \in tables}
           /\ IsInjective(violations.rows)

\* No violation is lost or repeated between the evaluation and what an agent
\* reads, or the answer says that it is not whole.  An agent that follows
\* next_offset to the end, with whatever limits, has every matching row of the
\* table from its first offset on, each once, in the order it asked for, rows of
\* equal value in the order of the table (results.py query, operations.py
\* _model_dataset_query).  The stored ranking, which can be paged through, has
\* every violation once, none before a riskier one, and the answer is its head
\* with the count of all (derived_results.py rank_result_risk).  The groups of an
\* aggregation are distinct: with as many rows as group_count says their counts
\* and sums add up to those of the matching rows, and with fewer the limit was
\* reached and rows are missing (results.py aggregate).
PagesComplete ==
    reading # None /\ reading.at = "query" /\ reading.next = None =>
       LET rows     == RowsOf(reading.dataset)
           position(r) == CHOOSE i \in DOMAIN rows : rows[i] = r
           matching == {i \in DOMAIN rows : \/ reading.filter = None
                                           \/ Matches(rows[i].value, reading.filter.operator,
                                                      reading.filter.value)}
           ordered(r, s) ==
              \/ reading.sort = "ascending" /\ Smaller(r.value, s.value)
              \/ reading.sort = "descending" /\ Smaller(s.value, r.value)
              \/ (reading.sort = None \/ r.value = s.value) /\ position(r) < position(s)
           got == reading.got
       IN  /\ Range(got) \subseteq {rows[i] : i \in matching}
           /\ Len(got) = IF reading.start < Cardinality(matching)
                           THEN Cardinality(matching) - reading.start ELSE 0
           /\ \A i, j \in DOMAIN got : i < j => ordered(got[i], got[j])

RankingKept ==
    risk # None =>
       LET ranked == IF risk.stored = None THEN <<>> ELSE risk.stored
       IN  /\ Range(ranked) = Range(violations.rows)
           /\ Len(ranked) = Len(violations.rows)
           /\ \A i, j \in DOMAIN ranked : i < j => ~Riskier(risk.weights, ranked[j], ranked[i])
           /\ IsPrefix(risk.answer, ranked)
           /\ Len(risk.answer) < risk.count => Len(risk.answer) = Capped(risk.limit)
           /\ risk.count = Len(violations.rows)

AggregatesAddUp ==
    reading # None /\ reading.at = "aggregate" =>
       LET groups == reading.answer.rows
           rows   == Where(violations.rows, reading.where)
           total  == Aggregate(rows)
           known(n) == IF n = None THEN 0 ELSE n
           added(field) == FoldSeq(LAMBDA g, t : known(g[field]) + t, 0, groups)
       IN  /\ \A i, j \in DOMAIN groups : groups[i].key = groups[j].key => i = j
           /\ Len(groups) = reading.answer.groups =>
                 /\ added("count") = total.count
                 /\ added("sum") = known(total.sum)
           /\ Len(groups) # reading.answer.groups =>
                 /\ Len(groups) = Capped(reading.limit)
                 /\ added("count") < total.count

RowsKept == PagesComplete /\ RankingKept /\ AggregatesAddUp

\* A comparison by a key that names the row compares elements that both results
\* have and the base keeps, each with itself and once; matched_row_count counts
\* them all, and those missing from the answer are behind its limit, in the order
\* of their references.  The comparison of two equal tables shows no difference,
\* whatever the key (results.py compare).
ComparesLikeWithLike ==
    reading # None /\ reading.at = "compare" =>
       LET shown    == Range(reading.rows)
           matching == {e \in DOMAIN reading.other :
                           \/ reading.where = None
                           \/ ElementRow(e)[reading.where.field] = reading.where.value}
       IN  /\ reading.key = "asset" =>
                 /\ reading.matched = Cardinality(matching)
                 /\ Cardinality(shown) = Len(reading.rows)
                 /\ Len(reading.rows) < reading.matched =>
                       Len(reading.rows) = Capped(reading.limit)
                 /\ \A r \in shown :
                       /\ r.key \in matching
                       /\ r.base = value[r.key]
                       /\ r.candidate = reading.other[r.key]
                       /\ \A e \in matching \ {s.key : s \in shown} :
                             TextOrder[r.key] < TextOrder[e]
           /\ reading.where = None /\ reading.other = [e \in Range(BusRows) |-> value[e]] =>
                 \A r \in shown : r.delta \in {0, None}

\* Only what the model limits is reported as evaluated (the contract of
\* analysis.result.violations.evaluate: "Only quantities present in both result
\* and model constraints are evaluated").
EvaluatedAreLimited ==
    violations # None => violations.evaluated \subseteq Defined(Constrained(FALSE))
=============================================================================
