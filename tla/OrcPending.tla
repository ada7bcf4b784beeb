----------------------------- MODULE OrcPending -----------------------------
(***************************************************************************)
(* MaterializingInfo::PendingQueries as the vector it is.  The code keeps  *)
(* it sorted, those that require most first, so that what a new state      *)
(* satisfies can be popped from its back.  Elsewhere it is the set         *)
(* pending[s]; here the operations on the vector are compared with those   *)
(* on the set, for whatever order the queries that wait may have come in.  *)
(***************************************************************************)
EXTENDS OrcMaterialize, SequencesExt

\* The last position of L with a query that requires more than st.
LastBeyond(L, st) == SelectLastInSeq(L, LAMBDA q : QueryState[q] > st)

\* Faulty variant: the query goes to the back.
PushedBack(L, q) == Append(L, q)

\* addQuery: lower_bound from the back passes all that require as much or less.
AddQuery(L, q) == InsertAt(L, LastBeyond(L, QueryState[q]) + 1, q)

\* removeQuery.
RemoveQuery(L, q) == RemoveFirst(L, q)

\* takeQueriesMeeting pops from the back up to the first query that requires more.
Popped(L, st) == SubSeq(L, LastBeyond(L, st) + 1, Len(L))
LeftBeyond(L, st) == SubSeq(L, 1, LastBeyond(L, st))

-----------------------------------------------------------------------------
\* The vector that the queries of A make when they come in that order.
Listed(A) == FoldLeft(AddQuery, <<>>, A)

\* The sorted list loses no query (Core.cpp:1549).  Whatever order the queries on s
\* came in, what is popped are those that the new state satisfies, also where
\* one that requires more came later; and what popping or detaching leaves is
\* again the vector of those that stay, as if the others had never come, so that
\* the same holds of it.
ListsServe ==
  \A s \in mi : \A A \in SetToSeqs(pending[s]) :
    /\ \A st \in {Resolved, Ready} :
         /\ ToSet(Popped(Listed(A), st)) = TakeQueriesMeeting({s}, st)[s]
         /\ LeftBeyond(Listed(A), st) = Listed(SelectSeq(A, LAMBDA q : QueryState[q] > st))
    /\ \A q \in pending[s] :
         RemoveQuery(Listed(A), q) = Listed(SelectSeq(A, LAMBDA p : p # q))
=============================================================================
