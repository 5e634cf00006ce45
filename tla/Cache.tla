-------------------------------- MODULE Cache --------------------------------
(***************************************************************************)
(* nexus/internal/cache/cache.go: a prefix cache and a semantic cache over *)
(* one window of time.  Every method holds c.mu, for reading or writing,   *)
(* while it touches the cache, so one call is one step.  CacheBench.tla    *)
(* composes the calls as the bench does.                                   *)
(*                                                                         *)
(* A prompt is what the cache sees of it: the hash of its first 50 bytes   *)
(* and the number of its words that fall on each of the vector's           *)
(* dimensions.  embed divides the counts by their norm, which leaves their *)
(* signs alone; the cosine of two vectors, never negative here, is         *)
(* compared by its square, a fraction of whole numbers.                    *)
(***************************************************************************)
EXTENDS Integers, Sequences, SequencesExt

CONSTANTS Window,     \* how long an entry is served
          Dims,       \* the dimensions of a vector (64 in the code)
          ExactNum,   \* the score that ends the search for a better one,
          ExactDen    \* as a fraction (0.9999)

ASSUME CacheAssumption ==
    /\ Window \in Nat
    /\ Dims \in Nat \ {0}
    /\ ExactNum \in Nat \ {0}
    /\ ExactDen \in Nat
    /\ ExactNum <= ExactDen

Dim    == 1..Dims
Vector == [Dim -> Nat]

VARIABLES PrefixMap,        \* prefix hash -> [Response, Timestamp]
          SemanticEntries,  \* a sequence of [Vector, Response, Timestamp]
          InvertedIndex     \* dimension -> the IDs with a word there, in order

cacheVars == <<PrefixMap, SemanticEntries, InvertedIndex>>

NewCache == /\ PrefixMap = [key \in {} |-> 0]
            /\ SemanticEntries = << >>
            /\ InvertedIndex = [i \in Dim |-> << >>]

Expired(entry, now) == now - entry.Timestamp > Window

(* GetPrefix: the answer, of which there are one or none. *)
GetPrefix(prompt, now) ==
    {PrefixMap[key].Response :
        key \in {k \in DOMAIN PrefixMap :
                    k = prompt.prefix /\ ~Expired(PrefixMap[k], now)}}

SetPrefix(prompt, response, now) ==
    PrefixMap' = [key \in DOMAIN PrefixMap \cup {prompt.prefix} |->
                    IF key = prompt.prefix
                    THEN [Response |-> response, Timestamp |-> now]
                    ELSE PrefixMap[key]]

----------------------------------------------------------------------------
(* Scores.  The score of v against w is dot^2 / (|v|^2 |w|^2).             *)

Dot(v, w) == FoldLeftDomain(LAMBDA sum, i : sum + v[i] * w[i], 0, v)

(* Is v's score against w at least num/den?  Greater than against u? *)
AtLeast(v, w, num, den) ==
    Dot(v, w) * Dot(v, w) * den * den >= num * num * Dot(v, v) * Dot(w, w)

Closer(v, w, u) ==
    Dot(v, w) * Dot(v, w) * Dot(u, u) > Dot(v, u) * Dot(v, u) * Dot(w, w)

(* The entries that share a dimension with the vector, each once, in the   *)
(* order the index meets them.                                             *)
FindCandidates(vec) ==
    FoldLeft(LAMBDA found, id : IF Contains(found, id) THEN found ELSE Append(found, id),
             << >>,
             FlattenSeq([i \in Dim |-> IF vec[i] > 0 THEN InvertedIndex[i] ELSE << >>]))

NoMatch == 0

BetterAlways(vec, best, id) == TRUE                               \* mutant

(* Does the search go over from its best match so far to the candidate? *)
Better(vec, best, id) ==
    \/ best = NoMatch
    \/ /\ ~AtLeast(vec, SemanticEntries[best].Vector, ExactNum, ExactDen)
       /\ Closer(vec, SemanticEntries[id].Vector, SemanticEntries[best].Vector)

(* FindBestMatch: the ID of the entry whose response is returned.  A match *)
(* that is as good as exact is never left again: the code breaks off there.*)
FindBestMatch(prompt, now) ==
    FoldLeft(LAMBDA best, id : IF /\ ~Expired(SemanticEntries[id], now)
                                  /\ Better(prompt.vec, best, id)
                               THEN id ELSE best,
             NoMatch, FindCandidates(prompt.vec))

(* GetSemantic hits when the best match reaches the threshold. *)
SemanticHit(prompt, now, num, den) ==
    LET best == FindBestMatch(prompt, now)
    IN  /\ best # NoMatch
        /\ AtLeast(prompt.vec, SemanticEntries[best].Vector, num, den)

SetSemanticFirstDimension(prompt, response, now) ==               \* mutant
    /\ SemanticEntries' = Append(SemanticEntries,
           [Vector |-> prompt.vec, Response |-> response, Timestamp |-> now])
    /\ LET first == CHOOSE i \in Dim : /\ prompt.vec[i] > 0
                                       /\ \A j \in 1..(i - 1) : prompt.vec[j] = 0
       IN  InvertedIndex' = [InvertedIndex EXCEPT ![first] =
                                Append(@, Len(SemanticEntries) + 1)]

SetSemantic(prompt, response, now) ==
    /\ SemanticEntries' = Append(SemanticEntries,
           [Vector |-> prompt.vec, Response |-> response, Timestamp |-> now])
    /\ InvertedIndex' = [i \in Dim |->
           IF prompt.vec[i] > 0 THEN Append(InvertedIndex[i], Len(SemanticEntries) + 1)
                                ELSE InvertedIndex[i]]

----------------------------------------------------------------------------
(* The index lists, under every dimension, exactly the entries that have a *)
(* word there, in the order they were stored.                              *)
IndexComplete ==
    \A i \in Dim :
        /\ ToSet(InvertedIndex[i]) = {id \in DOMAIN SemanticEntries :
                                         SemanticEntries[id].Vector[i] > 0}
        /\ \A a, b \in DOMAIN InvertedIndex[i] :
              a < b => InvertedIndex[i][a] < InvertedIndex[i][b]

(* What the search promises, without the index, its order and its break:   *)
(* the match is an entry within the window, none within the window is      *)
(* closer unless the match is as good as exact, and there is no match only *)
(* when nothing in the window shares a dimension.                          *)
IsBestMatch(id, prompt, now) ==
    LET live == {j \in DOMAIN SemanticEntries :
                    /\ now - SemanticEntries[j].Timestamp <= Window
                    /\ Dot(prompt.vec, SemanticEntries[j].Vector) > 0}
    IN  IF id = NoMatch
        THEN live = {}
        ELSE /\ id \in live
             /\ \/ AtLeast(prompt.vec, SemanticEntries[id].Vector, ExactNum, ExactDen)
                \/ \A j \in live : ~Closer(prompt.vec, SemanticEntries[j].Vector,
                                                       SemanticEntries[id].Vector)
=============================================================================
