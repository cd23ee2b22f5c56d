-------------------------- MODULE StatusProjection --------------------------
(***************************************************************************)
(* pkg/tools/statusprojection: Project evaluates a list of mappings and    *)
(* writes the results into .status.                                        *)
(*                                                                         *)
(* status is Absent, or a function from the paths that hold a value to the *)
(* values; no such path is a prefix of another.  A mapping has a path and  *)
(* an expression:                                                          *)
(*   "literal"      a bare literal                                         *)
(*   "self"         ${ .self.status.b }                                    *)
(*   "status"       ${ .status.b }                                         *)
(*   "nothing"      a jq program without output                            *)
(*   "error"        a jq program that fails                                *)
(* resolved says what the caller passes besides the object: "plain"        *)
(* sources, a source that is called "status", or an "unsafe" value that    *)
(* cannot be deep-copied.                                                  *)
(***************************************************************************)
EXTENDS Integers, SequencesExt

CONSTANT Absent

Read(status, p) == IF status # Absent /\ p \in DOMAIN status THEN status[p] ELSE "null"

\* buildRoot: root["self"] is the live object.  root["status"] is the live
\* status too, if there is one when Project begins; if there is none, it is the
\* caller's, and stays that when the first mapping has made a status.
RootStatus(atStart, status, resolved) ==
  IF atStart # Absent THEN Read(status, <<"b">>)
  ELSE IF resolved = "status" THEN "resolved" ELSE "null"

\* evalOne, its errors and empty results aside.
Value(expr, atStart, status, resolved) ==
  CASE expr = "literal" -> "literal"
    [] expr = "self"    -> Read(status, <<"b">>)
    [] expr = "status"  -> RootStatus(atStart, status, resolved)

\* external: unstructured.SetNestedField fails on a path through a value that
\* is not an object, and replaces what is at the path and below it.
Blocked(status, path) == status # Absent /\ \E p \in DOMAIN status : IsStrictPrefix(p, path)

SetNestedField(status, path, v) ==
  LET others == IF status = Absent THEN {} ELSE {p \in DOMAIN status : ~IsPrefix(path, p)}
  IN [p \in others \cup {path} |-> IF p = path THEN v ELSE status[p]]

Fails(m, status, resolved) ==
  \/ m.path = <<>>
  \/ resolved = "unsafe"
  \/ m.expr = "error"
  \/ m.expr # "nothing" /\ Blocked(status, m.path)

Apply(m, atStart, status, resolved) ==
  IF m.expr = "nothing" THEN status
  ELSE SetNestedField(status, m.path, Value(m.expr, atStart, status, resolved))

\* Mutant: the first error ends the loop.
ProjectOneUntilError(atStart, resolved, mappings, r, i) ==
  IF r.failed # {} THEN r
  ELSE IF Fails(mappings[i], r.status, resolved) THEN [r EXCEPT !.failed = @ \cup {i}]
  ELSE [r EXCEPT !.status = Apply(mappings[i], atStart, @, resolved)]

\* One turn of Project's loop: an error is kept and the loop goes on.
ProjectOne(atStart, resolved, mappings, r, i) ==
  IF Fails(mappings[i], r.status, resolved) THEN [r EXCEPT !.failed = @ \cup {i}]
  ELSE [r EXCEPT !.status = Apply(mappings[i], atStart, @, resolved)]

Project(status, resolved, mappings) ==
  FoldLeft(LAMBDA r, i : ProjectOne(status, resolved, mappings, r, i),
           [status |-> status, failed |-> {}], [i \in DOMAIN mappings |-> i])

=============================================================================
