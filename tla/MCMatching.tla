----------------------------- MODULE MCMatching -----------------------------
(***************************************************************************)
(* A small catalogue and a small product for Matching: its releases in the *)
(* order they were made, each with the ways its version is written.        *)
(***************************************************************************)
EXTENDS Matching

Version(numbers, letters) ==
    [numbers |-> numbers, letters |-> letters, mark |-> "none", word |-> "none"]
Marked(numbers, mark, word) ==
    [numbers |-> numbers, letters |-> <<>>, mark |-> mark, word |-> word]

\* Letters are counted from a = 1.
MCReleases ==
    <<{Marked(<<1, 0>>, "-", "pre"), Marked(<<1, 0>>, "~", "other")},
      {Version(<<1, 0>>, <<>>), Version(<<1, 0, 0>>, <<>>),
       Marked(<<1, 0>>, "-", "other")},
      {Version(<<1, 0, 2>>, <<>>)},
      {Version(<<1, 0, 2>>, <<2>>)},
      {Version(<<1, 0, 2>>, <<26>>)},
      {Version(<<1, 0, 2>>, <<26, 1>>)},
      {Marked(<<1, 0, 10>>, "-", "pre")},
      {Version(<<1, 0, 10>>, <<>>), Marked(<<1, 0, 10>>, "+", "other")}>>

Unreadable == Version(<<>>, <<>>)

Written == UNION {MCReleases[n] : n \in DOMAIN MCReleases} \cup {Unreadable}

Probe(usual, banner, product, version) ==
    [usual |-> usual, banner |-> banner, product |-> product, version |-> version]

MCProbes ==
    {Probe(NoName, "http", "Apache", text) : text \in Written \cup {NoVersion}}
    \cup {Probe("ssh", "ssh", "OpenSSH", Version(<<1, 0, 2>>, <<>>)),
          Probe("irc", "irc", NoName, NoVersion),
          Probe("http", "other", NoName, NoVersion), Probe(NoName, "none", NoName, NoVersion)}

Row(part, product, pinned, range) ==
    [vulnerability |-> "v3", part |-> part, product |-> product, pinned |-> pinned,
     range |-> range]

Limits ==
    {Marked(<<1, 0>>, "-", "pre"), Version(<<1, 0>>, <<>>), Version(<<1, 0, 2>>, <<2>>),
     Version(<<1, 0, 2>>, <<26>>), Version(<<1, 0, 2>>, <<26, 1>>),
     Version(<<1, 0, 10>>, <<>>)}

Bound(operator, version) == [operator |-> operator, version |-> version]

MCCatalogueRows ==
    {Row("a", "http_server", text, {}) :
        text \in {Version(<<1, 0>>, <<>>), Version(<<1, 0, 2>>, <<26, 1>>), Unreadable}}
    \cup {Row("a", "http_server", NoVersion, {Bound(operator, text)}) :
            operator \in {"<", "<=", "=", ">"}, text \in Limits}
    \cup {Row("a", "http_server", NoVersion, {Bound(">=", low), Bound("<", high)}) :
            low \in {Version(<<1, 0>>, <<>>), Version(<<1, 0, 2>>, <<26>>)}, high \in Limits}
    \cup {Row("a", "http_server", NoVersion, {}),
          Row("a", "http_server", NoVersion, {Bound("<", Unreadable)}),
          Row("o", "http_server", NoVersion, {Bound("<", Version(<<1, 0, 10>>, <<>>))}),
          Row("a", "openssh", NoVersion, {Bound("<", Version(<<1, 0, 10>>, <<>>))}),
          Row("a", "unrealircd", NoVersion, {Bound("<", Version(<<1, 0, 10>>, <<>>))})}
    \cup {[Row("a", "http_server", NoVersion, {Bound("<=", Version(<<1, 0>>, <<>>))})
            EXCEPT !.vulnerability = "v4"]}

\* This product and this catalogue are such as the proofs ask for.
ASSUME ProductIsKnown == ReleasesAreOrdered /\ RowsNameReleases

\* Of a version as a package would give it, marks and all: believed if and only
\* if the row covers its release, and the less when a distribution revised it.
ASSUME VerdictsOfMarkedVersions ==
    \A m \in DOMAIN MCReleases, text \in Written, row \in MCCatalogueRows :
        text \in MCReleases[m] /\ row.product = "http_server"
        /\ (row.pinned # NoVersion \/ row.range # {})
        /\ Unreadable \notin {row.pinned} \cup {bound.version : bound \in row.range} =>
            MatchServiceToCpe(Service(NoName, "Apache", text), row).confidence =
                IF ~Covers(row, m) THEN 0
                ELSE IF text.mark \in {"-", "+"} /\ text.word = "other" THEN 40 ELSE 70

=============================================================================
