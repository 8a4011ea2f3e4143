------------------------------- MODULE StdList -------------------------------
(***************************************************************************)
(* The operations of std::list<pthread_t> that ThreadPool.cpp applies to   *)
(* m_threadid, on sequences.  push_back is Append; back, pop_back and      *)
(* remove are below.  RemoveAll is a recursive function, and not the       *)
(* SelectSeq of the standard module, so that StdListProofs can prove what  *)
(* it returns.                                                             *)
(***************************************************************************)
EXTENDS Naturals, Sequences

\* The set of values in list s.
Elements(s) == {s[n] : n \in 1..Len(s)}

\* back(): the entry pushed last.
Back(s) == s[Len(s)]

\* pop_back().
PopBack(s) == SubSeq(s, 1, Len(s) - 1)

\* remove(x): every entry equal to x is erased, the order of the others kept.
RemoveAll(s, x) ==
  LET kept[n \in 0..Len(s)] ==
        IF n = 0 THEN <<>>
        ELSE IF s[n] = x THEN kept[n - 1]
        ELSE Append(kept[n - 1], s[n])
  IN  kept[Len(s)]

==============================================================================
