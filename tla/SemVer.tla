------------------------------- MODULE SemVer --------------------------------
(***************************************************************************)
(* Versions and version constraints of the package manager                 *)
(* (tiny_pkg_resolution).  A version is <<major, minor, patch>>.  A        *)
(* constraint is a set of tokens such as ">=1.0" and "<2", all of which    *)
(* must hold: the operator and the one to three numbers written after it.  *)
(* "^" and "~" stand alone, a token without an operator is an exact        *)
(* version, and "*" is the empty set.                                      *)
(***************************************************************************)
EXTENDS Integers, Sequences

Version == Nat \X Nat \X Nat

Comparators == {"^", "~", ">=", ">", "<=", "<"}

\* The order of the dataclass: major first, then minor, then patch.
Older(v, w) == \/ v[1] < w[1]
               \/ v[1] = w[1] /\ v[2] < w[2]
               \/ v[1] = w[1] /\ v[2] = w[2] /\ v[3] < w[3]

\* Missing numbers are zero.
NormalizeVersion(base) ==
    [i \in 1 .. 3 |-> IF i <= Len(base) THEN base[i] ELSE 0]

\* The upper bound is always that of a 1.x version.
BugCaretUpperBound(b) == <<b[1] + 1, 0, 0>>

CaretUpperBound(b) == CASE b[1] # 0 -> <<b[1] + 1, 0, 0>>
                        [] b[1] = 0 /\ b[2] # 0 -> <<0, b[2] + 1, 0>>
                        [] OTHER -> <<0, 0, b[3] + 1>>

NextPatch(b) == <<b[1], b[2], b[3] + 1>>

NoBound == <<>>

\* The range [lower, upper) a token stands for.
RangeOf(op, b) ==
    CASE op = "^" -> [lower |-> b, upper |-> CaretUpperBound(b)]
      [] op = "~" -> [lower |-> b, upper |-> <<b[1], b[2] + 1, 0>>]
      [] op = ">=" -> [lower |-> b, upper |-> NoBound]
      [] op = ">" -> [lower |-> NextPatch(b), upper |-> NoBound]
      [] op = "<=" -> [lower |-> <<0, 0, 0>>, upper |-> NextPatch(b)]
      [] op = "<" -> [lower |-> <<0, 0, 0>>, upper |-> b]

InRange(range, v) == /\ ~Older(v, range.lower)
                     /\ range.upper = NoBound \/ Older(v, range.upper)

Matches(constraint, v) ==
    \A token \in constraint :
        LET base == NormalizeVersion(token.base)
        IN IF token.op = "=" THEN v = base ELSE InRange(RangeOf(token.op, base), v)

-----------------------------------------------------------------------------
(* What the operators are documented to mean, without bounds. *)

\* The first number of a version that must not change for it to stay compatible.
Breaking(b) == CASE b[1] # 0 -> 1
                 [] b[1] = 0 /\ b[2] # 0 -> 2
                 [] OTHER -> 3

Compatible(op, b, v) ==
    CASE op = "^" -> ~Older(v, b) /\ \A i \in 1 .. 3 : i <= Breaking(b) => v[i] = b[i]
      [] op = "~" -> ~Older(v, b) /\ v[1] = b[1] /\ v[2] = b[2]
      [] op = ">=" -> ~Older(v, b)
      [] op = ">" -> Older(b, v)
      [] op = "<=" -> ~Older(b, v)
      [] op = "<" -> Older(v, b)

Allowed(constraint, v) ==
    \A token \in constraint :
        LET base == NormalizeVersion(token.base)
        IN IF token.op = "=" THEN v = base ELSE Compatible(token.op, base, v)
=============================================================================
