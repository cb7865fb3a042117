----------------------------- MODULE RouteTable -----------------------------
(***************************************************************************)
(* The route table (router.rs): the rows a request is dispatched by, kept  *)
(* in the byte order of their URL templates, and the operations the boot   *)
(* scan and the watcher change it with.                                    *)
(*                                                                         *)
(* A page source is named by the tokens of its path under pages/, the file *)
(* stem last.  A token is a record [kind, name]; names are numbers, in the *)
(* order of their bytes, and begin with a letter.  A URL path is the       *)
(* sequence of segments of its template.                                   *)
(***************************************************************************)
EXTENDS Integers, FiniteSets, Sequences, SequencesExt

CONSTANTS
    Source,  \* the page sources that may exist
    Index,   \* the token of the stem "index"
    None     \* no route

VARIABLES
    table    \* RouteTable.routes

\* parse_segment: "bad" stands for every token it refuses.
Kind == {"static", "param", "catchall", "bad"}

ASSUME SourceAssumption ==
    /\ Index \in [kind : {"static"}, name : Nat]
    /\ IsFiniteSet(Source)
    /\ \A f \in Source : /\ f \in Seq([kind : Kind, name : Nat])
                         /\ f # <<>>

\* The shapes a scan accepts.  Behind an index stem the position of a
\* catch-all is not examined.
Supported(f) ==
    LET tokens == IF Last(f) = Index THEN Front(f) ELSE f IN
    /\ \A i \in DOMAIN tokens : tokens[i].kind # "bad"
    /\ Last(f) # Index =>
         \A i \in 1 .. Len(f) - 1 : f[i].kind # "catchall"

\* The URL path a source is served under.
url_path_for(f) == IF Last(f) = Index THEN Front(f) ELSE f

Row(f, methods) ==
    [path |-> url_path_for(f), source |-> f, methods |-> methods]

PathsOf(rows) == {rows[i].path : i \in DOMAIN rows}

-----------------------------------------------------------------------------
(* The order of the rows: templates are compared as strings, in which a    *)
(* catch-all begins with '*', a parameter with ':' and a name with a       *)
(* letter.                                                                 *)

SegmentBefore(s, t) ==
    LET first(x) == CASE x.kind = "catchall" -> 0
                      [] x.kind = "param" -> 1
                      [] OTHER -> 2
    IN  \/ first(s) < first(t)
        \/ first(s) = first(t) /\ s.name < t.name

Before(p, q) ==
    \E i \in DOMAIN q :
        /\ i <= Len(p) + 1
        /\ \A j \in 1 .. i - 1 : p[j] = q[j]
        /\ i <= Len(p) => SegmentBefore(p[i], q[i])

\* Mutant: the row is pushed and the rows are not sorted again.
add_Unsorted(rows, row) == Append(rows, row)

\* A push and a stable sort.
add(rows, row) ==
    LET k == Cardinality({i \in DOMAIN rows : ~ Before(row.path, rows[i].path)})
    IN  InsertAt(rows, k + 1, row)

\* The first row of the path, under the same lock as a lookup.
replace_by_path(rows, row) ==
    LET k == SelectInSeq(rows, LAMBDA r : r.path = row.path)
    IN  IF k = 0 THEN rows ELSE [rows EXCEPT ![k] = row]

\* retain: every other row, in the order they are in.
remove_by_path(rows, path) ==
    LET kept == {i \in DOMAIN rows : rows[i].path # path}
        rank(i) == Cardinality({j \in kept : j <= i})
    IN  [k \in 1 .. Cardinality(kept) |-> rows[CHOOSE i \in kept : rank(i) = k]]

get_by_path(rows, path) == rows[SelectInSeq(rows, LAMBDA r : r.path = path)]

-----------------------------------------------------------------------------
(* Dispatch.  A request is the sequence of its decoded path segments.      *)

\* A catch-all takes whatever is left, nothing included.
match_segments(pattern, req) ==
    LET star == SelectInSeq(pattern, LAMBDA s : s.kind = "catchall")
        fixed == IF star = 0 THEN Len(pattern) ELSE star - 1
    IN  /\ IF star = 0 THEN Len(req) = fixed ELSE Len(req) >= fixed
        /\ \A i \in 1 .. fixed :
             pattern[i].kind = "static" => pattern[i].name = req[i]

priority(pattern) ==
    LET of(kind) == Cardinality({i \in DOMAIN pattern : pattern[i].kind = kind})
    IN  of("param") + 2 * of("catchall")

Candidates(rows, req) == {i \in DOMAIN rows : match_segments(rows[i].path, req)}

\* Mutant: the first row that matches answers.
best_FirstMatch(rows, req) ==
    IF Candidates(rows, req) = {} THEN None ELSE rows[Min(Candidates(rows, req))]

\* What the lookup loop ends with: of the rows that match, the first in table
\* order of those with the lowest score.
Wins(rows, req, i) ==
    \A j \in Candidates(rows, req) :
        \/ priority(rows[i].path) < priority(rows[j].path)
        \/ priority(rows[i].path) = priority(rows[j].path) /\ i <= j

best(rows, req) ==
    IF Candidates(rows, req) = {} THEN None
    ELSE rows[CHOOSE i \in Candidates(rows, req) : Wins(rows, req, i)]

Found(row, method) == [result |-> "found", route |-> row, method |-> method]

lookup_named(rows, req, method) ==
    LET row == best(rows, req) IN
    CASE row = None -> [result |-> "not_found"]
      [] row # None /\ method \in row.methods -> Found(row, method)
      [] row # None /\ method \notin row.methods /\ "ANY" \in row.methods ->
           Found(row, "ANY")
      [] row # None /\ {"ANY", "HEAD"} \cap row.methods = {}
           /\ method = "HEAD" /\ "GET" \in row.methods -> Found(row, "GET")
      [] OTHER -> [result |-> "method_not_allowed", route |-> row]
=============================================================================
