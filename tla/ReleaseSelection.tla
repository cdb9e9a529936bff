--------------------------- MODULE ReleaseSelection ---------------------------
(***************************************************************************)
(* Which asset of which release core-upgrade-alpha takes, as operators on  *)
(* the listing the release API answers with: a sequence of releases, each  *)
(* a record of its tag and name (sequences of code points, since their     *)
(* order matters), whether it is a prerelease, whether tag or name         *)
(* contains "alpha", when it was published, and its set of assets.         *)
(*                                                                         *)
(* An asset is named mihomo-linux-<arch>-[<level>-]...[.gz]; kept of it    *)
(* are the architecture, the CPU level, whether it ends in .gz, whether    *)
(* its prefix is spelled in lower case, and the core binary it holds.      *)
(***************************************************************************)
EXTENDS Integers, Sequences, FiniteSetsExt, SequencesExt

Digit(c) == c \in 48..57
Lower(c) == IF c \in 65..90 THEN c + 32 ELSE c
Sign(n) == IF n > 0 THEN 1 ELSE IF n < 0 THEN -1 ELSE 0

\* The position after the digits that start at position i.
NumeralEnd(s, i) == Min({j \in i..Len(s) : ~Digit(s[j])} \cup {Len(s) + 1})

\* Trimmed of zeros, numerals compare by length and then by digit: by value.
Numeral(s, i) ==
  FoldLeft(LAMBDA value, c : 10 * value + (c - 48), 0, SubSeq(s, i, NumeralEnd(s, i) - 1))

\* Mutant: digit by digit, as strings.Compare does.
naturalCompare_Plain(left, right) ==
  LET cmp[i \in 1 .. Len(left) + 1] ==
        IF i > Len(left) \/ i > Len(right) THEN Sign(Len(left) - Len(right))
        ELSE IF Lower(left[i]) # Lower(right[i]) THEN Sign(Lower(left[i]) - Lower(right[i]))
        ELSE cmp[i + 1]
  IN cmp[1]

\* Names that are equal but for zeros before a numeral compare by their whole length,
\* also when they go on differently: then this is not an order.
naturalCompare(left, right) ==
  LET cmp[i \in 1 .. Len(left) + 1, j \in 1 .. Len(right) + 1] ==
        IF i > Len(left) \/ j > Len(right) THEN Sign(Len(left) - Len(right))
        ELSE IF Digit(left[i]) /\ Digit(right[j])
             THEN IF Numeral(left, i) # Numeral(right, j)
                  THEN Sign(Numeral(left, i) - Numeral(right, j))
                  ELSE cmp[NumeralEnd(left, i), NumeralEnd(right, j)]
        ELSE IF Lower(left[i]) # Lower(right[j]) THEN Sign(Lower(left[i]) - Lower(right[j]))
        ELSE cmp[i + 1, j + 1]
  IN cmp[1, 1]

releaseIsNewer(left, right) ==
  \/ left.published > right.published
  \/ /\ left.published = right.published
     /\ LET tags == naturalCompare(left.tag, right.tag)
        IN IF tags # 0 THEN tags > 0 ELSE naturalCompare(left.name, right.name) > 0

isAlphaPrerelease(release) == release.prerelease /\ release.alpha

\* slices.SortFunc of up to 12 elements is an insertion sort: each release goes left
\* past those it is newer than.
SortedIn(sorted, release) ==
  InsertAt(sorted,
           1 + Max({0} \cup {i \in DOMAIN sorted : ~releaseIsNewer(release, sorted[i])}),
           release)

alphaReleasesByNewest(releases) ==
  FoldLeft(SortedIn, <<>>, SelectSeq(releases, isAlphaPrerelease))
-----------------------------------------------------------------------------
normalizeAMD64CPULevel(setting) ==
  CASE setting \in {"1", "V1"} -> "v1"
    [] setting \in {"3", "V3"} -> "v3"
    [] OTHER -> setting

\* The prefix is cut off the name as it is spelled, unlike in the comparison above it.
amd64CPULevelForAsset(asset) == IF asset.exact THEN asset.level ELSE ""

\* Mutant: an asset of any level will do.
Matching_AnyLevel(assets, goarch, level) == {a \in assets : a.gz /\ a.arch = goarch}

Matching(assets, goarch, level) ==
  {a \in assets : /\ a.gz /\ a.arch = goarch
                  /\ goarch = "amd64" /\ level # "" => amd64CPULevelForAsset(a) = level}

\* Several assets would do, or the setting leaves open which CPU level is meant.
Ambiguous(assets, goarch, level) ==
  \/ Cardinality(Matching(assets, goarch, level)) > 1
  \/ /\ goarch = "amd64" /\ level = ""
     /\ \E a \in Matching(assets, goarch, level) : amd64CPULevelForAsset(a) # ""

\* The asset that is taken, as a set of at most one.  A release without a match is
\* passed over; one whose match is ambiguous ends the search.
selectLatestAlphaAsset(releases, goarch, setting) ==
  LET level == normalizeAMD64CPULevel(setting)
      sorted == alphaReleasesByNewest(releases)
      matched == {i \in DOMAIN sorted : Matching(sorted[i].assets, goarch, level) # {}}
      chosen == sorted[Min(matched)].assets
  IN IF \/ goarch \notin {"amd64", "arm64"} \/ matched = {}
        \/ Ambiguous(chosen, goarch, level)
     THEN {} ELSE Matching(chosen, goarch, level)
-----------------------------------------------------------------------------
(* The reference the choice is compared with *)

\* What a tag has before the numeral it ends in, and the value of that numeral.
Stem(tag) == SubSeq(tag, 1, Max({0} \cup {i \in DOMAIN tag : ~Digit(tag[i])}))
Build(tag) == Numeral(tag, Len(Stem(tag)) + 1)

\* Published later, or at the same time under a tag that counts higher.
Supersedes(newer, older) ==
  \/ newer.published > older.published
  \/ /\ newer.published = older.published
     /\ Stem(newer.tag) = Stem(older.tag) /\ Build(newer.tag) > Build(older.tag)

\* An asset a host can run: its architecture, and the CPU level the setting asks for.
Runs(asset, goarch, setting) ==
  /\ asset.gz /\ asset.arch = goarch
  /\ goarch = "amd64" => asset.level = normalizeAMD64CPULevel(setting)
=============================================================================
