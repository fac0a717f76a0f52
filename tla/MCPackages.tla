----------------------------- MODULE MCPackages ------------------------------
(* The package manager checked on one package that may be declared in two  *)
(* sections, with three versions in the registry.                          *)
EXTENDS Packages

CONSTANTS a, d1, d2

OneInTwoSections == << <<"dependencies", a>>, <<"dev-dependencies", a>> >>
Old == <<0, 1, 9>>
New == <<0, 1, 10>>
Breaks == <<0, 2, 0>>
ThreeVersions == {Old, New, Breaks}
TwoDigests == {d1, d2}
Caret == {[op |-> "^", base |-> <<0, 1>>]}
Exact == {[op |-> "=", base |-> <<0, 2>>]}
Kinds == {[kind |-> "registry", want |-> Caret], [kind |-> "path", want |-> Undeclared],
          [kind |-> "registry", want |-> Exact], [kind |-> "git", want |-> Exact]}
Dists == [v \in ThreeVersions |-> IF v = Old THEN "dir" ELSE IF v = New THEN "url" ELSE "archive"]
=============================================================================
