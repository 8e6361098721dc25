------------------------------ MODULE Matching ------------------------------
(***************************************************************************)
(* What becomes of the banner of an open port: the product and version it  *)
(* claims, the entries of the vulnerability catalogue that name the        *)
(* product, and for each vulnerability how much to believe that it applies.*)
(*                                                                         *)
(* A version is written as numbers, letters, and perhaps a mark with what  *)
(* follows it: 1.0.2za, 1.0-rc1, 1.0.10+deb11u2.  Confidence is counted in *)
(* hundredths.                                                             *)
(***************************************************************************)
EXTENDS Naturals, Sequences, FiniteSets

CONSTANTS
    Probes,            \* open ports: the service usual there, and the banner
    CatalogueRows,     \* vulnerability_cpes, the index of the catalogue
    Vulnerabilities,
    RowCap,            \* CATALOGUE_CANDIDATE_CAP
    NoName, NoVersion, \* null
    Releases           \* for each release of the product, in order, its versions

ASSUME CatalogueAssumption ==
    \A row \in CatalogueRows : row.vulnerability \in Vulnerabilities

VARIABLES
    service,     \* what the banner claims
    considered,  \* catalogue rows examined
    best         \* for each vulnerability the strongest verdict so far

matchVars == <<service, considered, best>>

-----------------------------------------------------------------------------
(* Versions *)

Unparseable ==
    [parsed |-> FALSE, segments |-> <<>>, letter |-> <<>>, pre |-> FALSE, revision |-> FALSE]

\* "~" begins a pre-release, and so does "-" or "+" before rc, alpha, beta...;
\* before anything else they begin the revision of a distribution.
ParseVersion(text) ==
    IF text = NoVersion \/ text.numbers = <<>> \/ Len(text.letters) > 3 THEN Unparseable
    ELSE LET pre == text.mark = "~" \/ (text.mark # "none" /\ text.word = "pre")
         IN [parsed |-> TRUE, segments |-> text.numbers, letter |-> text.letters,
             pre |-> pre, revision |-> text.mark # "none" /\ ~pre]

\* A missing segment is zero.
Segment(v, n) == IF n <= Len(v.segments) THEN v.segments[n] ELSE 0

SegmentsEarlier(a, b) ==
    \E n \in 1..Len(b.segments) :
        /\ Segment(a, n) < Segment(b, n)
        /\ \A k \in 1..(n - 1) : Segment(a, k) = Segment(b, k)

SameSegments(a, b) ==
    /\ \A n \in 1..Len(a.segments) : Segment(a, n) = Segment(b, n)
    /\ \A n \in 1..Len(b.segments) : Segment(a, n) = Segment(b, n)

\* a to z, then za to zz.
LettersEarlier(s, t) ==
    \/ Len(s) < Len(t)
    \/ /\ Len(s) = Len(t)
       /\ \E n \in 1..Len(t) : s[n] < t[n] /\ \A k \in 1..(n - 1) : s[k] = t[k]

\* compareVersions(a, b) < 0
Earlier(a, b) ==
    \/ SegmentsEarlier(a, b)
    \/ /\ SameSegments(a, b)
       /\ \/ LettersEarlier(a.letter, b.letter)
          \/ a.letter = b.letter /\ a.pre /\ ~b.pre

\* compareVersions(a, b) = 0
SameRelease(a, b) == SameSegments(a, b) /\ a.letter = b.letter /\ a.pre = b.pre

-----------------------------------------------------------------------------
(* Ranges and products *)

Satisfies(v, operator, bound) ==
    CASE operator = "<"  -> Earlier(v, bound)
      [] operator = "<=" -> ~Earlier(bound, v)
      [] operator = ">"  -> Earlier(bound, v)
      [] operator = ">=" -> ~Earlier(v, bound)
      [] operator = "="  -> SameRelease(v, bound)

EvaluateVersionRange(v, range) ==
    IF range = {} \/ ~v.parsed \/ \E bound \in range : ~ParseVersion(bound.version).parsed
    THEN "indeterminate"
    ELSE IF \A bound \in range : Satisfies(v, bound.operator, ParseVersion(bound.version))
    THEN "in_range" ELSE "out_of_range"

\* The names the banners of the model give, in lower case.
NormaliseProductName(name) ==
    CASE name = "Apache" -> "apache"
      [] name = "OpenSSH" -> "openssh"
      [] name = "UnrealIRCd" -> "unrealircd"
      [] OTHER -> name

ProductAliases(name) ==
    CASE name \in {"apache", "httpd"} -> {"http_server", "apache", "httpd"}
      [] name = "openssh_server" -> {"openssh"}
      [] name = "pure-ftpd" -> {"pure-ftpd", "pure_ftpd"}
      [] name = "mysql" -> {"mysql", "mysql_server"}
      [] name = "curl" -> {"curl", "libcurl"}
      [] OTHER -> {name}

CandidateProductNames(name) ==
    IF name = NoName THEN {}
    ELSE {NormaliseProductName(name)} \cup ProductAliases(NormaliseProductName(name))

ProductOf(s) == IF s.product # NoName THEN s.product ELSE s.serviceName

\* [\w.]+ : a banner is read up to its mark, and what follows is lost.
Captured(text) ==
    IF text = NoVersion THEN NoVersion
    ELSE [text EXCEPT !.mark = "none", !.word = "none"]

Service(serviceName, product, version) ==
    [serviceName |-> serviceName, product |-> product, version |-> version]

NoService == Service(NoName, NoName, NoVersion)

ParseBanner(probe) ==
    LET version == Captured(probe.version)
    IN CASE probe.banner \in {"ssh", "ftp"} -> Service(probe.banner, probe.product, version)
         [] probe.banner = "http" ->
              Service(IF probe.usual = NoName THEN "http" ELSE probe.usual,
                      probe.product, version)
         [] probe.banner = "irc" -> Service("irc", "UnrealIRCd", version)
         [] OTHER -> Service(probe.usual, NoName, NoVersion)

-----------------------------------------------------------------------------
(* Verdicts *)

MatchReason ==
    {"exact_version_in_range", "version_pinned_exact", "vendor_revision_backport_possible",
     "version_unparseable", "range_unparseable", "product_only_no_version"}

Verdict(confidence, reasons) == [confidence |-> confidence, reasons |-> reasons]
NoMatch == Verdict(0, {})

WithBackportPenalty(v, reason) ==
    IF v.revision THEN Verdict(40, {reason, "vendor_revision_backport_possible"})
    ELSE Verdict(70, {reason})

\* A CPE that names a version has it in "pinned", and others NoVersion.
PinnedVerdict(v, row) ==
    IF ~ParseVersion(row.pinned).parsed THEN Verdict(25, {"version_unparseable"})
    ELSE IF SameRelease(v, ParseVersion(row.pinned))
    THEN WithBackportPenalty(v, "version_pinned_exact") ELSE NoMatch

RangeVerdict(v, row) ==
    CASE EvaluateVersionRange(v, row.range) = "in_range" ->
           WithBackportPenalty(v, "exact_version_in_range")
      [] EvaluateVersionRange(v, row.range) = "out_of_range" -> NoMatch
      [] OTHER -> Verdict(25, {"range_unparseable"})

MatchServiceToCpe(s, row) ==
    IF row.product \notin CandidateProductNames(ProductOf(s)) THEN NoMatch
    ELSE IF s.version = NoVersion THEN Verdict(20, {"product_only_no_version"})
    ELSE IF ~ParseVersion(s.version).parsed THEN Verdict(25, {"version_unparseable"})
    ELSE IF row.pinned # NoVersion THEN PinnedVerdict(ParseVersion(s.version), row)
    ELSE RangeVerdict(ParseVersion(s.version), row)

-----------------------------------------------------------------------------
\* Mutant: the last row that matches decides.
Latest(old, new) == IF new.confidence > 0 THEN new ELSE old
Stronger(old, new) == IF new.confidence > old.confidence THEN new ELSE old

MatchInit ==
    /\ service = NoService
    /\ considered = {}
    /\ best = [x \in Vulnerabilities |-> NoMatch]

Observe(probe) ==
    /\ service = NoService
    /\ service' = ParseBanner(probe)
    /\ UNCHANGED <<considered, best>>

\* The query takes application CPEs of the product, in any order, up to the cap.
Consider(row) ==
    /\ row.product \in CandidateProductNames(ProductOf(service))
    /\ row.part = "a"
    /\ row \notin considered
    /\ Cardinality(considered) < RowCap
    /\ considered' = considered \cup {row}
    /\ best' = [best EXCEPT ![row.vulnerability] =
                  Stronger(@, MatchServiceToCpe(service, row))]
    /\ UNCHANGED service

MatchNext ==
    \/ (\E probe \in Probes : Observe(probe))
    \/ (\E row \in CatalogueRows : Consider(row))

MatchSpec == MatchInit /\ [][MatchNext]_matchVars

-----------------------------------------------------------------------------
(* Properties *)

RowsFor(x) == {row \in considered : row.vulnerability = x}

\* Every variable has its type.
MatchTypeOK ==
    /\ service = NoService \/ \E probe \in Probes : service = ParseBanner(probe)
    /\ considered \subseteq CatalogueRows
    /\ \A x \in Vulnerabilities :
         best[x].confidence \in {0, 20, 25, 40, 70} /\ best[x].reasons \subseteq MatchReason

\* process-scan-run.ts:571: the verdict on a vulnerability is the strongest of
\* its rows, in whichever order they were read.
StrongestRowDecides ==
    \A x \in Vulnerabilities :
        /\ \A row \in RowsFor(x) :
             MatchServiceToCpe(service, row).confidence <= best[x].confidence
        /\ \/ best[x] = NoMatch
           \/ \E row \in RowsFor(x) : best[x] = MatchServiceToCpe(service, row)

\* The place of a version among the releases of the product.
ReleasedAt(text, n) == text \in Releases[n]

Within(m, operator, n) ==
    CASE operator = "<" -> m < n [] operator = "<=" -> m <= n [] operator = "=" -> m = n
      [] operator = ">" -> m > n [] operator = ">=" -> m >= n

\* A row covers the release, or not, when both are known.
Covers(row, m) ==
    IF row.pinned # NoVersion THEN ReleasedAt(row.pinned, m)
    ELSE \A bound \in row.range :
           \E n \in DOMAIN Releases :
               ReleasedAt(bound.version, n) /\ Within(m, bound.operator, n)

\* The release the service was read to have.
Observed(m) == service.version # NoVersion /\ ReleasedAt(service.version, m)

\* What is known of the product: its releases in their order, each version of
\* one read as the same release.
ReleasesAreOrdered ==
    /\ DOMAIN Releases \subseteq Nat
    /\ \A m, n \in DOMAIN Releases : \A s \in Releases[m], t \in Releases[n] :
         /\ s.numbers \in Seq(Nat) /\ s.letters \in Seq(Nat) /\ ParseVersion(s).parsed
         /\ m < n => Earlier(ParseVersion(s), ParseVersion(t))
         /\ m = n => SameRelease(ParseVersion(s), ParseVersion(t))

\* What is known of the catalogue: the versions in it that can be read are of
\* releases.
RowsNameReleases ==
    \A row \in CatalogueRows :
        /\ ParseVersion(row.pinned).parsed => \E n \in DOMAIN Releases : ReleasedAt(row.pinned, n)
        /\ \A bound \in row.range :
             /\ bound.operator \in {"<", "<=", "=", ">", ">="}
             /\ ParseVersion(bound.version).parsed =>
                  \E n \in DOMAIN Releases : ReleasedAt(bound.version, n)

\* A.6, QA-00: whatever the order in which the rows of the catalogue are read,
\* a vulnerability is believed by 0.70 only if a row covers the release that
\* the service was read to have, by the order in which the releases were made,
\* and it is left out only if every row of it excludes that release.
MatchesAreHonest ==
    /\ StrongestRowDecides
    /\ \A x \in Vulnerabilities, m \in DOMAIN Releases :
         Observed(m) =>
           /\ best[x].confidence = 70 => \E row \in RowsFor(x) : Covers(row, m)
           /\ best[x] = NoMatch => \A row \in RowsFor(x) : ~Covers(row, m)

=============================================================================
