------------------------------ MODULE Ratings ------------------------------
(***************************************************************************)
(* Rating the other party of a completed trip (use case rate_trip, and     *)
(* create_once and record_rating of the repositories).                     *)
(*                                                                         *)
(* The rating goes in under a unique constraint, in a savepoint; the sum   *)
(* and the count on the row of whoever was rated are added to by the       *)
(* UPDATE itself, which waits for the row's holder.                        *)
(***************************************************************************)
EXTENDS Naturals, FiniteSets

CONSTANTS Ratings,   \* requests, each with a rater, a ratee and a score
          RatingBy, RatingOf, Score

ASSUME ScoreAssumption == IsFiniteSet(Ratings) /\ Score \in [Ratings -> 1..5]

VARIABLES
  rating,   \* how far each request is
  rated,    \* ratings: the requests whose row is committed
  total,    \* rating_sum and rating_count of each person rated
  adding    \* what each request's UPDATE has made of the ratee's row

ratingVars == <<rating, rated, total, adding>>

Total == [sum : Nat, count : Nat]
Unrated == [sum |-> 0, count |-> 0]

Rated == {RatingOf[r] : r \in Ratings}

RatingsTypeOK ==
  /\ rating \in [Ratings -> {"new", "looked", "inserted", "added", "done", "refused"}]
  /\ rated \subseteq Ratings
  /\ total \in [Rated -> Total]
  /\ adding \in [Ratings -> Total]

RatingsInit ==
  /\ rating = [r \in Ratings |-> "new"]
  /\ rated = {}
  /\ total = [p \in Rated |-> Unrated]
  /\ adding = [r \in Ratings |-> Unrated]

Twin(r, s) == RatingBy[r] = RatingBy[s] /\ RatingOf[r] = RatingOf[s]

\* Who holds the rating's place in the unique index, or the ratee's row.
PlaceHolders(r) == {s \in Ratings : Twin(r, s) /\ rating[s] \in {"inserted", "added"}}
RateeHolders(r) == {s \in Ratings : RatingOf[s] = RatingOf[r] /\ rating[s] = "added"}

RatingGoes(r, s) == rating' = [rating EXCEPT ![r] = s] /\ UNCHANGED <<rated, total, adding>>

RateFind(r) ==
  /\ rating[r] = "new"
  /\ IF \E s \in rated : Twin(r, s) THEN RatingGoes(r, "refused") ELSE RatingGoes(r, "looked")

\* create_once: the insert waits for a twin's, and is refused if that stood.
CreateOnce(r) ==
  /\ rating[r] = "looked" /\ PlaceHolders(r) = {}
  /\ IF \E s \in rated : Twin(r, s) THEN RatingGoes(r, "refused") ELSE RatingGoes(r, "inserted")

\* record_rating: the UPDATE adds to the row, which is held from here on.
RecordRating(r) ==
  /\ rating[r] = "inserted" /\ RateeHolders(r) = {}
  /\ rating' = [rating EXCEPT ![r] = "added"]
  /\ adding' = [adding EXCEPT ![r] = [sum |-> total[RatingOf[r]].sum + Score[r],
                                      count |-> total[RatingOf[r]].count + 1]]
  /\ UNCHANGED <<rated, total>>

RateCommit(r) ==
  /\ rating[r] = "added"
  /\ rating' = [rating EXCEPT ![r] = "done"]
  /\ rated' = rated \cup {r}
  /\ total' = [total EXCEPT ![RatingOf[r]] = adding[r]]
  /\ UNCHANGED adding

RateFail(r) == rating[r] \in {"inserted", "added"} /\ RatingGoes(r, "refused")

rate_trip(r) == \/ RateFind(r) \/ CreateOnce(r) \/ RecordRating(r) \/ RateCommit(r) \/ RateFail(r)

RatingsNext == \E r \in Ratings : rate_trip(r)

RatingsSpec == RatingsInit /\ [][RatingsNext]_ratingVars

-----------------------------------------------------------------------------
OfRatee(p) == {r \in rated : RatingOf[r] = p}
\* The stars of some ratings, one by one: as many as their scores sum to.
Stars(S) == {x \in S \X (1..5) : x[2] <= Score[x[1]]}

\* rate_trip.py, "so they can be corrected exactly rather than drifting":
\* the totals are the ratings on file, and nobody is rated twice for one
\* trip by one rater, however often they tap.
TotalsAreTheRatings ==
  /\ \A r, s \in rated : Twin(r, s) => r = s
  /\ \A p \in Rated : /\ total[p].count = Cardinality(OfRatee(p))
                      /\ total[p].sum = Cardinality(Stars(OfRatee(p)))

\* Why it is so: who has a rating in or on its way keeps its twins out, and
\* what an UPDATE has made of a row is still one rating more than the row.
RowsHeld ==
  /\ \A r \in Ratings : r \in rated <=> rating[r] = "done"
  /\ \A r, s \in Ratings : Twin(r, s) /\ {rating[r], rating[s]} \subseteq {"inserted", "added", "done"}
                           => r = s
  /\ \A r \in Ratings : rating[r] = "added" =>
       /\ RateeHolders(r) = {r}
       /\ adding[r] = [sum |-> total[RatingOf[r]].sum + Score[r],
                       count |-> total[RatingOf[r]].count + 1]

\* The inductive invariant.
RatingsInv == RatingsTypeOK /\ RowsHeld /\ TotalsAreTheRatings
=============================================================================
