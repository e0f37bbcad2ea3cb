----------------------------- MODULE MCReadPath -----------------------------
(* Small instances of ReadPath. *)
EXTENDS ReadPath

Version(amount, count, tag, outcome, mutability) ==
    [amount |-> amount, count |-> count, tag |-> tag,
     outcome |-> outcome, mutability |-> mutability]

\* Two ordinary ones, an amount beyond a double, a count beyond the column.
MCVersions ==
    {Version(1, 1, 1, "TRUE", "MUTABLE"), Version(2, 2, 2, "FALSE", "IMMUTABLE"),
     Version(7, 1, 2, "UNRESOLVED", "MUTABLE"), Version(3, 3, 1, "TRUE", "MUTABLE")}
=============================================================================
