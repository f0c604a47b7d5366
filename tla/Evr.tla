-------------------------------- MODULE Evr ---------------------------------
(***************************************************************************)
(* Comparing versions (evr.c).  A string is the sequence of the codes of   *)
(* its characters; what strncmp and the character classes see of it is all *)
(* that matters.  The four comparisons of the code are the ones of Debian, *)
(* rpm, Arch Linux and Haiku.                                              *)
(***************************************************************************)
EXTENDS Integers, Sequences, FiniteSets, SequencesExt

Dash == 45
Zero == 48
Colon == 58
Caret == 94
Tilde == 126
IsDigit(c) == c \in 48..57
IsLetter(c) == c \in 65..90 \/ c \in 97..122
IsAlnum(c) == IsDigit(c) \/ IsLetter(c)

Compare(a, b) == IF a < b THEN -1 ELSE IF a > b THEN 1 ELSE 0
\* the first comparison that does not end in a draw
OrElseCmp(r, next) == IF r # 0 THEN r ELSE next
First(s) == IF s = <<>> THEN 0 ELSE s[1]
From(s, n) == SubSeq(s, n, Len(s))
\* how many characters at the start of s are in the class C
DigitRun(s) == LET n[i \in Nat] == IF i <= Len(s) /\ IsDigit(s[i]) THEN n[i + 1] ELSE i - 1 IN n[1]
LetterRun(s) == LET n[i \in Nat] == IF i <= Len(s) /\ IsLetter(s[i]) THEN n[i + 1] ELSE i - 1 IN n[1]
TextRun(s) == LET n[i \in Nat] == IF i <= Len(s) /\ ~IsDigit(s[i]) THEN n[i + 1] ELSE i - 1 IN n[1]
Digits(s) == SubSeq(s, 1, DigitRun(s))
Letters(s) == SubSeq(s, 1, LetterRun(s))
Text(s) == SubSeq(s, 1, TextRun(s))
\* a number without the zeros in front, its last digit is kept
Stripped(s) == LET f[i \in Nat] == IF i < Len(s) /\ s[i] = Zero THEN f[i + 1] ELSE From(s, i) IN f[1]
\* no digit is kept
Bare(s) == LET f[i \in Nat] == IF i <= Len(s) /\ s[i] = Zero THEN f[i + 1] ELSE From(s, i) IN f[1]
StrCmp(s, t) ==
    LET f[i \in Nat] == CASE i > Len(s) /\ i > Len(t) -> 0
                          [] i > Len(s) /\ i <= Len(t) -> -1
                          [] i <= Len(s) /\ i > Len(t) -> 1
                          [] OTHER -> IF s[i] # t[i] THEN Compare(s[i], t[i]) ELSE f[i + 1]
    IN  f[1]
NumCmp(s, t) == IF Len(s) # Len(t) THEN Compare(Len(s), Len(t)) ELSE StrCmp(s, t)

(***************************************************************************)
(* solv_vercmp_deb                                                         *)
(***************************************************************************)
DebRank(c) == CASE c = Tilde -> -1
                [] c # Tilde /\ (c = 0 \/ IsAlnum(c)) -> c
                [] OTHER -> c + 256
Rest(s) == IF s = <<>> THEN <<>> ELSE Tail(s)
RECURSIVE VercmpDeb(_, _)
DebChars(s, t) ==
    CASE DebRank(First(s)) # DebRank(First(t)) -> Compare(DebRank(First(s)), DebRank(First(t)))
      [] DebRank(First(s)) = DebRank(First(t)) /\ First(s) = 0 -> 0
      [] OTHER -> VercmpDeb(Rest(s), Rest(t))
VercmpDeb(s, t) ==
    IF ~(IsDigit(First(s)) /\ IsDigit(First(t))) THEN DebChars(s, t)
    ELSE OrElseCmp(NumCmp(Bare(Digits(s)), Bare(Digits(t))), DebChars(From(s, DigitRun(s) + 1), From(t, DigitRun(t) + 1)))

(***************************************************************************)
(* solv_vercmp_rpm and, without tilde and caret, solv_vercmp_rpm_notilde   *)
(***************************************************************************)
SkipTo(s, special) == LET f[i \in Nat] == IF i > Len(s) THEN <<>>
                                          ELSE IF IsAlnum(s[i]) \/ s[i] \in special THEN From(s, i) ELSE f[i + 1]
                      IN  f[1]
\* a segment is a number or a word; a number is newer than a word
SegLen(s, num) == IF num THEN DigitRun(s) ELSE LetterRun(s)
SegmentCmp(s, t, num) == IF num THEN NumCmp(Stripped(Digits(s)), Stripped(Digits(t))) ELSE StrCmp(Letters(s), Letters(t))
RECURSIVE VercmpRpm(_, _)
SegmentsRpm(s, t) ==
    LET num == IsDigit(First(s)) \/ IsDigit(First(t))
    IN  OrElseCmp(SegmentCmp(s, t, num), VercmpRpm(From(s, SegLen(s, num) + 1), From(t, SegLen(t, num) + 1)))
MarksRpm(s, t) ==
    LET a == First(s)
        b == First(t)
    IN  CASE a = Tilde /\ b = Tilde -> VercmpRpm(Rest(s), Rest(t))
          [] a = Tilde /\ b # Tilde -> -1
          [] a # Tilde /\ b = Tilde -> 1
          [] a = Caret /\ b = Caret -> VercmpRpm(Rest(s), Rest(t))
          [] a = Caret /\ b \notin {Tilde, Caret} -> IF t = <<>> THEN 1 ELSE -1
          [] a \notin {Tilde, Caret} /\ b = Caret -> IF s = <<>> THEN -1 ELSE 1
          [] OTHER -> IF s = <<>> \/ t = <<>> THEN Compare(Len(s), Len(t)) ELSE SegmentsRpm(s, t)
VercmpRpm(s, t) == MarksRpm(SkipTo(s, {Tilde, Caret}), SkipTo(t, {Tilde, Caret}))

RECURSIVE VercmpNotilde(_, _)
SegmentsNotilde(s, t) ==
    LET num == IsDigit(First(s)) \/ IsDigit(First(t))
    IN  OrElseCmp(SegmentCmp(s, t, num), VercmpNotilde(From(s, SegLen(s, num) + 1), From(t, SegLen(t, num) + 1)))
VercmpNotilde(s, t) ==
    IF s = <<>> \/ t = <<>> THEN Compare(Len(s), Len(t)) ELSE SegmentsNotilde(SkipTo(s, {}), SkipTo(t, {}))

(***************************************************************************)
(* solv_vercmp_haiku: text and number in turn; a pre-release, behind a     *)
(* tilde, comes before the release.                                        *)
(***************************************************************************)
TextCmp(s, t) ==
    LET n == IF Len(s) < Len(t) THEN Len(s) ELSE Len(t)
    IN  OrElseCmp(StrCmp(SubSeq(s, 1, n), SubSeq(t, 1, n)), Compare(Len(s), Len(t)))
RECURSIVE PartHaiku(_, _)
NumbersHaiku(s, t) ==
    LET m == Stripped(Digits(s))
        n == Stripped(Digits(t))
    IN  IF m # n THEN NumCmp(m, n) ELSE IF m = <<>> THEN 0 ELSE PartHaiku(From(s, DigitRun(s) + 1), From(t, DigitRun(t) + 1))
PartHaiku(s, t) ==
    IF s = <<>> \/ t = <<>> THEN Compare(Len(s), Len(t))
    ELSE OrElseCmp(TextCmp(Text(s), Text(t)), NumbersHaiku(From(s, TextRun(s) + 1), From(t, TextRun(t) + 1)))
TildeAt(s) == LET f[i \in Nat] == IF i > Len(s) \/ s[i] = Tilde THEN i ELSE f[i + 1] IN f[1]
VercmpHaiku(s, t) ==
    LET i == TildeAt(s)
        j == TildeAt(t)
    IN  OrElseCmp(PartHaiku(SubSeq(s, 1, i - 1), SubSeq(t, 1, j - 1)),
                  IF i > Len(s) \/ j > Len(t) THEN Compare(IF i > Len(s) THEN 1 ELSE 0, IF j > Len(t) THEN 1 ELSE 0)
                  ELSE PartHaiku(From(s, i + 1), From(t, j + 1)))

Vercmp(dist, s, t) == CASE dist = "deb" -> VercmpDeb(s, t)
                        [] dist = "rpm" -> VercmpRpm(s, t)
                        [] dist = "arch" -> VercmpNotilde(s, t)
                        [] dist = "haiku" -> VercmpHaiku(s, t)

(***************************************************************************)
(* pool_evrcmp_str: epoch, version, release.  o is [dist, mode, promote,   *)
(* distepoch]; the mode is "compare", "evonly", "release" (match_release)  *)
(* or "match".                                                             *)
(***************************************************************************)
HasEpoch(s) == DigitRun(s) > 0 /\ DigitRun(s) < Len(s) /\ s[DigitRun(s) + 1] = Colon
EpochOf(s) == Digits(s)
AfterEpoch(s) == From(s, DigitRun(s) + 2)
IsNull(epoch) == Bare(epoch) = <<>>

ReleaseAt(s) == LET f[i \in Nat] == IF i = 0 \/ s[i] = Dash THEN i ELSE f[i - 1] IN f[Len(s)]
VersionOf(s) == IF ReleaseAt(s) = 0 THEN s ELSE SubSeq(s, 1, ReleaseAt(s) - 1)
ReleaseOf(s) == From(s, ReleaseAt(s) + 1)
ColonAt(s) == LET f[i \in Nat] == IF i > Len(s) \/ s[i] = Colon THEN i ELSE f[i + 1] IN f[1]

DistEpochCmp(o, s, t) ==
    LET i == ColonAt(s)
        j == ColonAt(t)
    IN  OrElseCmp(Vercmp(o.dist, SubSeq(s, 1, i - 1), SubSeq(t, 1, j - 1)),
                  IF i > Len(s) \/ j > Len(t) THEN 0 ELSE Vercmp(o.dist, From(s, i + 1), From(t, j + 1)))
BothReleases(o, s, t) ==
    CASE o.mode = "match" /\ (s = <<>> \/ t = <<>>) -> 0
      [] ~(o.mode = "match" /\ (s = <<>> \/ t = <<>>)) /\ o.distepoch -> DistEpochCmp(o, s, t)
      [] OTHER -> Vercmp(o.dist, s, t)
\* a release that is empty counts as missing when a dependency is matched
HasRelease(o, s) == ReleaseAt(s) # 0 /\ ~(o.mode = "release" /\ ReleaseOf(s) = <<>>)
ReleaseCmpBug(o, s, t) ==   \* mutant: a missing release is as good as any in every mode
    IF HasRelease(o, s) /\ HasRelease(o, t) THEN BothReleases(o, ReleaseOf(s), ReleaseOf(t)) ELSE 0

ReleaseCmp(o, s, t) ==
    CASE o.mode = "compare" /\ (ReleaseAt(s) = 0) # (ReleaseAt(t) = 0) -> IF ReleaseAt(s) = 0 THEN -1 ELSE 1
      [] o.mode = "evonly" -> 0
      [] o.mode = "release" /\ HasRelease(o, s) # HasRelease(o, t) -> IF HasRelease(o, s) THEN 2 ELSE -2
      [] OTHER -> IF HasRelease(o, s) /\ HasRelease(o, t) THEN BothReleases(o, ReleaseOf(s), ReleaseOf(t)) ELSE 0
VersionReleaseCmp(o, s, t) ==
    LET v == VersionOf(s)
        w == VersionOf(t)
    IN  OrElseCmp(IF o.mode = "match" /\ (v = <<>> \/ w = <<>>) THEN 0 ELSE Vercmp(o.dist, v, w), ReleaseCmp(o, s, t))

\* an epoch on one side only: none is epoch 0, or, promoted, any epoch of the first
EpochCmp(o, s, t) ==
    CASE HasEpoch(s) /\ HasEpoch(t) -> Vercmp(o.dist, EpochOf(s), EpochOf(t))
      [] HasEpoch(s) /\ ~HasEpoch(t) -> IF o.promote \/ IsNull(EpochOf(s)) THEN 0 ELSE 1
      [] ~HasEpoch(s) /\ HasEpoch(t) -> IF IsNull(EpochOf(t)) THEN 0 ELSE -1
      [] OTHER -> 0
DropEpoch(s) == IF HasEpoch(s) THEN AfterEpoch(s) ELSE s
\* in match mode an empty epoch on either side switches the check off
NoEpochs(s) == IF DigitRun(s) < Len(s) /\ s[DigitRun(s) + 1] = Colon THEN AfterEpoch(s) ELSE s
EvrcmpBy(o, s, t, any) ==
    IF s = t THEN 0
    ELSE OrElseCmp(IF any THEN 0 ELSE EpochCmp(o, s, t),
                   VersionReleaseCmp(o, IF any THEN NoEpochs(s) ELSE DropEpoch(s), IF any THEN NoEpochs(t) ELSE DropEpoch(t)))
Evrcmp(o, s, t) == EvrcmpBy(o, s, t, o.mode = "match" /\ Colon \in {First(s), First(t)})

(***************************************************************************)
(* pool_evrmatch: against an epoch, a version and a release given apart;   *)
(* <<>> stands for one that is not given.                                  *)
(***************************************************************************)
EvrmatchEpoch(dist, s, epoch) ==
    CASE epoch = <<>> -> 0
      [] epoch # <<>> /\ HasEpoch(s) -> Vercmp(dist, EpochOf(s), epoch)
      [] OTHER -> IF IsNull(epoch) THEN 0 ELSE -1
EvrmatchRest(dist, s, version, release) ==
    OrElseCmp(IF version = <<>> THEN 0 ELSE Vercmp(dist, VersionOf(s), version),
              CASE release = <<>> -> 0
                [] release # <<>> /\ ReleaseAt(s) = 0 -> -1
                [] OTHER -> Vercmp(dist, ReleaseOf(s), release))
Evrmatch(dist, s, epoch, version, release) ==
    OrElseCmp(EvrmatchEpoch(dist, s, epoch), EvrmatchRest(dist, DropEpoch(s), version, release))

(***************************************************************************)
(* rpmeqmagic: the first characters of a version, without epoch 0 and      *)
(* zeros, as a quick check before two versions are compared for "=".       *)
(***************************************************************************)
Head2(s, C) == IF Len(s) > 1 /\ s[2] \in C THEN <<s[1], s[2]>> ELSE <<s[1]>>
Unzero(s) == LET f[i \in Nat] == IF i < Len(s) /\ s[i] = Zero /\ IsDigit(s[i + 1]) THEN f[i + 1] ELSE From(s, i) IN f[1]
EqMagicOf(s) == CASE IsDigit(First(s)) -> Head2(s, 48..57)
                  [] IsLetter(First(s)) -> Head2(s, 65..90 \cup 97..122)
                  [] OTHER -> <<>>
RpmEqMagic(s) ==
    LET t == Unzero(s)
    IN  EqMagicOf(IF First(s) = Zero /\ Len(t) > 1 /\ t[1] = Zero /\ t[2] = Colon THEN Unzero(From(t, 3)) ELSE t)
CantMatch(s, t) == RpmEqMagic(s) # <<>> /\ RpmEqMagic(t) # <<>> /\ RpmEqMagic(s) # RpmEqMagic(t)

-----------------------------------------------------------------------------
(***************************************************************************)
(* Versions met one after the other, as a solver compares them.            *)
(***************************************************************************)
CONSTANTS Versions, Dists
VARIABLE met
EvrInit == met = <<>>
Meet == Len(met) < 3 /\ \E v \in Versions : met' = Append(met, v)
EvrSpec == EvrInit /\ [][Meet]_met

Mode(d, m) == [dist |-> d, mode |-> m, promote |-> FALSE, distepoch |-> FALSE]
Cmp(d, m, s, t) == Evrcmp(Mode(d, m), s, t)
CompareTable == [d \in Dists, s \in Versions, t \in Versions |-> Cmp(d, "compare", s, t)]

Opposite(d, m, s, t) == Cmp(d, m, s, t) = -Cmp(d, m, t, s)
\* comparing is at least as strict as matching, and as matching the parts of a full version
Agree(compare, match) == match \in {-1, 1} => compare = match
PartsAgree(d, s, t) ==
    HasEpoch(t) /\ ReleaseOf(DropEpoch(t)) # <<>> /\ ReleaseAt(DropEpoch(t)) # 0 =>
        Evrmatch(d, s, EpochOf(t), VersionOf(DropEpoch(t)), ReleaseOf(DropEpoch(t))) = CompareTable[d, s, t]
Transitive(r12, r23, r13) == r12 <= 0 /\ r23 <= 0 => r13 <= 0 /\ (r13 = 0 => r12 = 0)
TransitiveIn(table, d) == Transitive(table[d, met[1], met[2]], table[d, met[2], met[3]], table[d, met[1], met[3]])

(***************************************************************************)
(* Of two versions one is newer or they are alike, whichever is named      *)
(* first; versions are alike for the same others, and what is newer than a *)
(* newer one is newer.  The pre-check for "=" refuses no pair that         *)
(* matches; matching agrees with comparing where it says not equal, and so *)
(* does matching with the parts of a version given one by one.             *)
(***************************************************************************)
VersionsOrdered ==
    \A d \in Dists :
      /\ Len(met) = 2 =>
           /\ \A m \in {"compare", "evonly", "release", "match"} : Opposite(d, m, met[1], met[2])
           /\ CantMatch(met[1], met[2]) => Cmp("rpm", "release", met[1], met[2]) \in {-1, 1}
           /\ Agree(CompareTable[d, met[1], met[2]], Cmp(d, "release", met[1], met[2]))
           /\ PartsAgree(d, met[1], met[2])
      /\ Len(met) = 3 => TransitiveIn(CompareTable, d)
=============================================================================
