----------------------------- MODULE PoolFilter -----------------------------
(***************************************************************************)
(* The pool filter and the page size of the query service, as operators.   *)
(*                                                                         *)
(* float64 values are integers in units of half the least distance that    *)
(* matters; NaN is a value that compares with nothing.                     *)
(***************************************************************************)
EXTENDS Integers

CONSTANTS
    Unset, NaN,          \* no value, and the float64
    MinPageSize, DefaultPageSize, MaxPageSize

ASSUME PageConstants ==
    /\ MinPageSize \in 1 .. DefaultPageSize /\ DefaultPageSize \in 1 .. MaxPageSize
    /\ MaxPageSize \in Nat

\* Mutant: an end that is excluded is compared only if the other is not.
OneEnd(v, f) ==
    /\ NaN \notin {v, f.min, f.max}
    /\ v >= f.min /\ v <= f.max
    /\ f.exclude = {"min"} => v # f.min
    /\ f.exclude = {"max"} => v # f.max

\* Entities and pools.  Arguments and values are functions; exclude is a set of ends.
InRange(v, f) ==
    /\ NaN \notin {v, f.min, f.max}
    /\ v >= f.min /\ v <= f.max
    /\ "min" \in f.exclude => v # f.min
    /\ "max" \in f.exclude => v # f.max

\* A create time that is not valid is logged, and passes.
In(pool, e) ==
    /\ pool.after # Unset /\ e.created # NaN => e.created > pool.after
    /\ pool.before # Unset /\ e.created # NaN => e.created < pool.before
    /\ \A f \in pool.ranges : /\ f.arg \in DOMAIN e.doubles
                              /\ InRange(e.doubles[f.arg], f)
    /\ \A f \in pool.equals : /\ f.arg \in DOMAIN e.strings
                              /\ e.strings[f.arg] = f.value
    /\ pool.tags \subseteq e.tags

getPageSize(configured) ==
    IF configured = Unset THEN DefaultPageSize
    ELSE IF configured < MinPageSize THEN MinPageSize
    ELSE IF configured > MaxPageSize THEN MaxPageSize ELSE configured
=============================================================================
