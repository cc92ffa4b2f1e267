--------------------------- MODULE MCLibraryCalls ---------------------------
(***************************************************************************)
(* Programs of up to MaxCalls calls on two arrays, of four bytes and of    *)
(* two, a heap cell, a pointer that only reads and an integer.             *)
(***************************************************************************)
EXTENDS LibraryCalls

Sizes == [a |-> 4, b |-> 2]

(* Conversions print at most three characters where the code has 20 to 32. *)
Digits == [d |-> 3]

Of(c, args) == Call(Nobody, c, args)

S  == Conv("s", Absent, Absent)

(* One strncpy for each destination: of two, the second may uncover NULs   *)
(* that the first one padded with, a string longer than what was copied.   *)
Copies ==
  << Of("strcpy", <<Ref("a"), Lit(1)>>), Of("strcpy", <<Ref("a"), Lit(4)>>),
   Of("strcpy", <<Ref("b"), Lit(0)>>), Of("strcpy", <<Ref("b"), Ref("a")>>),
   Of("strcpy", <<Plus("a", 3), Ref("b")>>), Of("strcpy", <<Ref("b"), Plus("a", 1)>>),
   Of("strcpy", <<Ref(Heap), Ref("a")>>), Of("strcpy", <<Ref("b"), Ref(Window)>>),
   Of("strncpy", <<Ref("a"), Ref(Window), Int1(3)>>),
   Of("strncpy", <<Ref("b"), Ref("a"), SizeOf("b")>>),
   Of("strncpy", <<Ref(Heap), Ref("a"), Ref(Num)>>) >>

Concatenations ==
  << Of("strcat", <<Ref("a"), Ref("b")>>), Of("strncat", <<Ref("a"), Lit(2), Int1(1)>>),
   Of("strncat", <<Ref("b"), Ref("a"), Int1(1)>>) >>

Reads ==
  << Of("fgets", <<Ref("a"), Int1(3)>>), Of("fgets", <<Ref("b"), SizeOf("a")>>),
   Of("gets", <<Ref("a")>>) >>

Pointers ==
  <<Call(Heap, "malloc", <<StrLen("a", 0)>>), Call(Heap, "malloc", <<StrLen("a", 1)>>),
   Call(Heap, "malloc", <<Ref(Num)>>), Call(Heap, "strdup", <<Ref("a")>>),
   Call(Window, "strchr", <<Ref("a")>>), Call(Window, "=", <<Ref("a")>>),
   Call(Window, "getenv", << >>) >>

Numbers ==
  <<Call(Num, "=", <<StrLen("a", 0)>>), Call(Num, "=", <<Int1(2)>>),
   Call(Num, "strspn", <<Ref("a")>>) >>

Formats ==
  <<Formatted("sprintf", <<Ref("a"), Ref("b")>>, <<Char, S>>),
   Formatted("sprintf", <<Ref("b"), Ref(Num)>>, <<Conv("d", Absent, Absent)>>),
   Formatted("sprintf", <<Ref("a"), Ref(Num), Ref("b"), Ref("b")>>,
             <<Conv("s", Absent, Star), S>>),
   Formatted("sprintf", <<Ref("b"), Ref(Num), Ref("a")>>, <<Conv("s", Star, 1)>>),
   Formatted("sprintf", <<Ref("b")>>, Unparsed),
   Formatted("snprintf", <<Ref("b"), SizeOf("b"), Ref("a")>>, <<S, Char>>),
   Formatted("snprintf", <<Ref("b"), Ref(Num), Int1(1), Ref(Window)>>,
             <<Conv("c", Absent, Absent), S>>) >>

Usual == Copies \o Concatenations \o Reads \o Pointers \o Numbers \o Formats
=============================================================================
