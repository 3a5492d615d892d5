---------------------------- MODULE MCSleepMemory ----------------------------
(***************************************************************************)
(* Small instances of SleepMemory: a few memories, one or two tickers.     *)
(***************************************************************************)
EXTENDS SleepMemory

CONSTANTS i1, i2, i3, i4, t1, t2   \* items and tickers, as model values

Four  == {i1, i2, i3, i4}
Both  == {t1, t2}

\* One thread ticks, or two do.
OneOrBoth == {{t1}, Both}

\* i4 shares the source of i1; every other memory has one of its own.
SharedSource == [i \in Item |-> IF i = i2 THEN 2 ELSE IF i = i3 THEN 3 ELSE 1]

\* i2 is blank; i1 and i3 do not fit one recap, nor do i3 and i4.
MixedSize == [i \in Item |-> IF i = i2 THEN 0 ELSE IF i = i3 THEN 3 ELSE 1]
=============================================================================
