---------------------------- MODULE ReleasePairs ----------------------------
(***************************************************************************)
(* Which pairs of releases a batch compares: resolve_tag_pairs and         *)
(* build_tag_pairs (batch.py), as operators on the history of a            *)
(* repository.  A history is a record of                                   *)
(*   tags     the tags, newest commit date first;                          *)
(*   version  per tag <<major, minor, rest>>, rest the rank of the patch   *)
(*            and the pre-release, or <<>> if it is no version;            *)
(*   sha      per tag the commit;                                          *)
(*   older    the pairs of commits of which the first is an ancestor of    *)
(*            the second;                                                  *)
(*   recent   the tags dated `since' or later.                             *)
(***************************************************************************)
EXTENDS Naturals, Sequences, FiniteSets, SequencesExt

CONSTANTS
  NoLimit,        \* last_releases is None: the batch has a `since' instead
  PerMajorLimit,  \* PER_MAJOR_TAG_FETCH_LIMIT
  ChronoLimit     \* DEFAULT_CHRONOLOGICAL_TAG_FETCH_LIMIT

ASSUME LimitsAssumption ==
  PerMajorLimit \in Nat /\ ChronoLimit \in Nat /\ NoLimit \notin Nat

Modes == {"ancestry", "chronological", "per_major"}

VersionKeys == Nat \X Nat \X Nat

\* What may be a history: every tag is listed once, and has a commit and a version.
IsHistory(h) ==
  /\ h = [tags |-> h.tags, version |-> h.version, sha |-> h.sha, older |-> h.older,
          recent |-> h.recent]
  /\ h.tags \in Seq(Range(h.tags)) /\ IsInjective(h.tags)
  /\ \A t \in Range(h.tags) : h.version[t] \in VersionKeys \cup {<<>>}

\* The order of version keys.
Less(v, w) == \E i \in DOMAIN v : v[i] < w[i] /\ \A j \in 1..(i - 1) : v[j] = w[j]

Stream(v) == <<v[1], v[2]>>

FirstOf(s, n) == SubSeq(s, 1, IF n < Len(s) THEN n ELSE Len(s))

LastOf(s, n) == SubSeq(s, IF n < Len(s) THEN Len(s) - n + 1 ELSE 1, Len(s))

Consecutive(s) == [i \in 1..(Len(s) - 1) |-> <<s[i], s[i + 1]>>]

\* The elements of S, each once, in the strict order R.
Sorted(S, R) ==
  CHOOSE s \in [1..Cardinality(S) -> S] :
    Range(s) = S /\ \A i, j \in DOMAIN s : i < j => <<s[i], s[j]>> \in R

Ascends(I) == {p \in I \X I : p[1] < p[2]}

\* The elements of s at the places I.
Picked(s, I) ==
  LET places == Sorted(I, Ascends(I)) IN [k \in DOMAIN places |-> s[places[k]]]

\* The history cut to the tags that list_tags_with_dates returns.
Listed(h, mode, last) ==
  LET limit == IF last \notin {NoLimit, 0} \/ mode # "chronological"
               THEN PerMajorLimit ELSE ChronoLimit
  IN [h EXCEPT !.tags = FirstOf(h.tags, limit)]

Versioned(h) == {t \in Range(h.tags) : h.version[t] # <<>>}

ListedBefore(h, s, t) == \E i, j \in DOMAIN h.tags : i < j /\ h.tags[i] = s /\ h.tags[j] = t

\* Tags of one version stay in the order of the list, as a stable sort leaves
\* them.
OldFirst(h) ==
  {p \in Versioned(h) \X Versioned(h) :
     LET v == h.version[p[1]] w == h.version[p[2]]
     IN  Less(v, w) \/ (v = w /\ ListedBefore(h, p[1], p[2]))}

NewFirst(h) ==
  {p \in Versioned(h) \X Versioned(h) :
     LET v == h.version[p[1]] w == h.version[p[2]]
     IN  Less(w, v) \/ (v = w /\ ListedBefore(h, p[1], p[2]))}

\* last_releases limits the pairs, `since' asks for a recent target.
Dated(h, last, t) == last = NoLimit => t \in h.recent

Recent(h, last, pairs) == Picked(pairs, {i \in DOMAIN pairs : Dated(h, last, pairs[i][2])})

-----------------------------------------------------------------------------
(* The default: every version with the closest older one of its history.   *)

\* git merge-base --is-ancestor, which holds of a commit and itself.
IsAncestor(h, s, t) == h.sha[s] = h.sha[t] \/ <<h.sha[s], h.sha[t]>> \in h.older

\* Faulty variant of Older: tags of the target's commit are candidates too.
OlderOfCommit(h, t) == {s \in Versioned(h) : Less(h.version[s], h.version[t])}

\* The older versions of another commit.
Older(h, t) ==
  {s \in Versioned(h) : Less(h.version[s], h.version[t]) /\ h.sha[s] # h.sha[t]}

InStream(h, s, t) == Stream(h.version[s]) = Stream(h.version[t])

\* Those of the target's stream come first.
Candidates(h, t) ==
  LET same == {s \in Older(h, t) : InStream(h, s, t)}
  IN Sorted(same, NewFirst(h)) \o Sorted(Older(h, t) \ same, NewFirst(h))

\* The places of the candidates that are ancestors; the first one is the source.
Ancestors(h, t) ==
  LET candidates == Candidates(h, t)
  IN  {i \in DOMAIN candidates : IsAncestor(h, candidates[i], t)}

SourceOf(h, t) ==
  Candidates(h, t)[CHOOSE i \in Ancestors(h, t) : \A j \in Ancestors(h, t) : i <= j]

\* The newest targets first, until there are enough; handed out old to new.
AncestryPairs(h, last) ==
  LET targets == Sorted({t \in Versioned(h) : Ancestors(h, t) # {} /\ Dated(h, last, t)},
                        NewFirst(h))
      found   == [i \in DOMAIN targets |-> <<SourceOf(h, targets[i]), targets[i]>>]
  IN Reverse(IF last = NoLimit THEN found ELSE FirstOf(found, last))

-----------------------------------------------------------------------------
(* The legacy modes.                                                       *)

Major(h, t) == h.version[t][1]

Majors(h) == {Major(h, t) : t \in Versioned(h)}

\* Consecutive versions of one major.
MajorPairs(h, m) ==
  Consecutive(Sorted({t \in Versioned(h) : Major(h, t) = m}, OldFirst(h)))

\* The pairs of one major after the other, of each the newest that are still wanted.
PairsOf(h, last, majors) ==
  LET upTo[k \in 0..Len(majors)] ==
        IF k = 0 THEN <<>>
        ELSE upTo[k - 1] \o
               (IF last = NoLimit THEN MajorPairs(h, majors[k])
                ELSE LastOf(MajorPairs(h, majors[k]), last - Len(upTo[k - 1])))
  IN upTo[Len(majors)]

\* The newest transitions of the latest major, then of the majors before it;
\* without any version the newest transitions by date.
LatestPairs(h, last) ==
  IF Majors(h) = {} /\ last # 0 THEN Consecutive(Reverse(FirstOf(h.tags, last + 1)))
  ELSE PairsOf(h, last, Reverse(Sorted(Majors(h), Ascends(Majors(h)))))

BuiltPairs(h, mode, last) ==
  CASE last # NoLimit -> LatestPairs(h, last)
    [] last = NoLimit /\ mode = "per_major" ->
         Recent(h, last, PairsOf(h, last, Sorted(Majors(h), Ascends(Majors(h)))))
    [] OTHER -> Recent(h, last, Consecutive(Reverse(h.tags)))

\* The pairs that a batch scans, in this order; none of less than two tags.
ResolvedPairs(h, mode, last) ==
  IF Len(h.tags) < 2 THEN <<>>
  ELSE IF mode = "ancestry" THEN AncestryPairs(h, last) ELSE BuiltPairs(h, mode, last)

-----------------------------------------------------------------------------
(* What the pairs should be.                                               *)

\* t is compared with s: an older version on its own history, and no other such
\* version is closer, one of the stream of t before any other one.
Closest(h, s, t) ==
  LET Known == {u \in Versioned(h) : /\ Less(h.version[u], h.version[t])
                                     /\ h.sha[u] # h.sha[t]
                                     /\ IsAncestor(h, u, t)}
  IN /\ s \in Known
     /\ \A u \in Known : InStream(h, u, t) => InStream(h, s, t)
     /\ \A u \in Known : InStream(h, u, t) = InStream(h, s, t)
                           => ~Less(h.version[s], h.version[u])

\* "each semantic-version release is compared with an older ancestor, preferring
\* its own major/minor stream" (README.md:185): every release that has an
\* ancestor to compare it with is a target once, in the order of the versions,
\* or, if the number is limited, the newest ones are.
AncestryCorrect(h, last, pairs) ==
  LET Wanted == {t \in Versioned(h) : /\ \E s \in Versioned(h) : Closest(h, s, t)
                                      /\ Dated(h, last, t)}
      Targets == {p[2] : p \in Range(pairs)}
  IN /\ \A p \in Range(pairs) : Closest(h, p[1], p[2])
     /\ Targets \subseteq Wanted
     /\ \A i, j \in DOMAIN pairs :
          i < j => /\ pairs[i][2] # pairs[j][2]
                   /\ ~Less(h.version[pairs[j][2]], h.version[pairs[i][2]])
     /\ \A t \in Wanted \ Targets :
          /\ last # NoLimit /\ Len(pairs) = last
          /\ \A u \in Targets : ~Less(h.version[u], h.version[t])

\* The release of t is the next one after that of s: in the list, or among the versions
\* of its major.
NextListed(h, s, t) ==
  \E i \in DOMAIN h.tags : i > 1 /\ h.tags[i] = s /\ h.tags[i - 1] = t

NextOfMajor(h, s, t) ==
  /\ <<s, t>> \in OldFirst(h) /\ Major(h, s) = Major(h, t)
  /\ ~\E u \in Versioned(h) : <<s, u>> \in OldFirst(h) /\ <<u, t>> \in OldFirst(h)

\* "Build consecutive tag pairs", "ordered old->new according to pairing_mode"
\* (batch.py:156, 169): each transition from a release to the next once, by date or within a
\* major, old to new; with a limit the newest of them, the latest major before the others.
LegacyCorrect(h, mode, last, pairs) ==
  LET ByDate == IF last = NoLimit THEN mode = "chronological" ELSE Majors(h) = {}
      Wanted == {p \in Range(h.tags) \X Range(h.tags) :
                   /\ IF ByDate THEN NextListed(h, p[1], p[2])
                      ELSE NextOfMajor(h, p[1], p[2])
                   /\ Dated(h, last, p[2])}
      Precedes(s, t) == IF ByDate THEN ListedBefore(h, t, s) ELSE <<s, t>> \in OldFirst(h)
      Turned(s, t) == last # NoLimit /\ ~ByDate /\ Major(h, s) # Major(h, t)
  IN /\ Range(pairs) \subseteq Wanted
     /\ last # NoLimit => Len(pairs) <= last
     /\ \A i, j \in DOMAIN pairs :
          i < j => IF Turned(pairs[i][2], pairs[j][2]) THEN Precedes(pairs[j][2], pairs[i][2])
                   ELSE Precedes(pairs[i][2], pairs[j][2])
     /\ \A p \in Wanted \ Range(pairs) :
          /\ last # NoLimit /\ Len(pairs) = last
          /\ \A q \in Range(pairs) : Precedes(p[2], q[2])
=============================================================================
