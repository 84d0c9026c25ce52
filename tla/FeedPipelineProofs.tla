------------------------- MODULE FeedPipelineProofs -------------------------
(***************************************************************************)
(* Proofs about FeedPipeline for every width of the addresses, every feed, *)
(* every content of the filter files and any number of edits.              *)
(***************************************************************************)
EXTENDS FeedPipeline, TLAPS

\* Functions that agree everywhere are equal.
LEMMA SameFunction ==
    ASSUME NEW D, NEW R, NEW f \in [D -> R], NEW g \in [D -> R], \A x \in D : f[x] = g[x]
    PROVE  f = g
  OBVIOUS

\* Widths are positive, and the mapped block leaves room for an IPv4 address.
LEMMA Widths ==
    /\ W4 \in Nat \ {0} /\ W6 \in Nat \ {0} /\ W6 - W4 \in Nat \ {0}
    /\ Width(4) = W4 /\ Width(6) = W6 /\ \A f \in {4, 6} : Width(f) \in Nat \ {0}
  BY PipelineAssumption DEF Width

\* What makes a record a prefix.
LEMMA PrefixShape ==
    ASSUME NEW p
    PROVE  p \in AllPrefixes <=>
              /\ p = [family |-> p.family, addr |-> p.addr, bits |-> p.bits]
              /\ p.family \in {4, 6} /\ p.addr \in Addresses(p.family)
              /\ p.bits \in 0 .. Width(p.family)
  <1>1. ASSUME NEW f \in {4, 6}
        PROVE  p \in [family : {f}, addr : Addresses(f), bits : 0 .. Width(f)] <=>
                  /\ p = [family |-> p.family, addr |-> p.addr, bits |-> p.bits]
                  /\ p.family = f /\ p.addr \in Addresses(f) /\ p.bits \in 0 .. Width(f)
    OBVIOUS
  <1> QED
    BY <1>1 DEF AllPrefixes

-----------------------------------------------------------------------------
(* Canonical prefixes. *)

\* Masking keeps the family and the length and clears the bits behind it.
LEMMA MaskedIs ==
    ASSUME NEW p \in AllPrefixes
    PROVE  /\ Masked(p) \in AllPrefixes
           /\ Masked(p).family = p.family /\ Masked(p).bits = p.bits
           /\ \A i \in 1 .. Width(p.family) :
                 Masked(p).addr[i] = IF i <= p.bits THEN p.addr[i] ELSE 0
  <1>1. /\ p = [family |-> p.family, addr |-> p.addr, bits |-> p.bits]
        /\ p.family \in {4, 6} /\ p.addr \in Addresses(p.family)
        /\ p.bits \in 0 .. Width(p.family)
    BY PrefixShape
  <1> DEFINE addr == [i \in 1 .. Width(p.family) |-> IF i <= p.bits THEN p.addr[i] ELSE 0]
  <1>2. DOMAIN p.addr = 1 .. Width(p.family)
    BY <1>1 DEF Addresses
  <1>3. Masked(p) = [family |-> p.family, addr |-> addr, bits |-> p.bits]
    <2>1. Masked(p) = [p EXCEPT !.addr = addr]
      BY <1>2 DEF Masked
    <2> HIDE DEF addr
    <2> QED
      BY <1>1, <2>1
  <1>4. addr \in Addresses(p.family)
    BY <1>1 DEF Addresses
  <1>5. Masked(p) \in AllPrefixes
    <2> HIDE DEF addr
    <2> QED
      BY <1>1, <1>3, <1>4, PrefixShape
  <1> QED
    BY <1>3, <1>5

\* A masked prefix is its own mask.
LEMMA MaskedTwice ==
    ASSUME NEW p \in AllPrefixes
    PROVE  Masked(Masked(p)) = Masked(p)
  <1> DEFINE q == Masked(p)
  <1>1. /\ q \in AllPrefixes /\ Masked(q) \in AllPrefixes
        /\ q.family = p.family /\ q.bits = p.bits
        /\ Masked(q).family = p.family /\ Masked(q).bits = p.bits
        /\ \A i \in 1 .. Width(p.family) : q.addr[i] = IF i <= p.bits THEN p.addr[i] ELSE 0
        /\ \A i \in 1 .. Width(p.family) : Masked(q).addr[i] = IF i <= p.bits THEN q.addr[i] ELSE 0
    BY MaskedIs
  <1> HIDE DEF q
  <1>2. \A i \in 1 .. Width(p.family) : Masked(q).addr[i] = q.addr[i]
    BY <1>1
  <1>3. /\ q.addr \in [1 .. Width(p.family) -> {0, 1}]
        /\ Masked(q).addr \in [1 .. Width(p.family) -> {0, 1}]
    BY <1>1, PrefixShape DEF Addresses
  <1>4. Masked(q).addr = q.addr
    <2> DEFINE D == 1 .. Width(p.family)
               f == Masked(q).addr
               g == q.addr
    <2>1. f \in [D -> {0, 1}] /\ g \in [D -> {0, 1}] /\ \A i \in D : f[i] = g[i]
      BY <1>2, <1>3
    <2> HIDE DEF D, f, g
    <2>2. f = g
      BY <2>1, SameFunction
    <2> QED
      BY <2>2 DEF f, g
  <1>5. Masked(q) = q
    BY <1>1, <1>4, PrefixShape
  <1> QED
    BY <1>5 DEF q

\* The last W4 bits of an IPv6 address are an IPv4 address.
LEMMA UnmapType ==
    ASSUME NEW a \in Addresses(6)
    PROVE  Unmap(a) \in Addresses(4)
  <1>1. \A i \in 1 .. W4 : W6 - W4 + i \in 1 .. W6
    BY Widths
  <1> QED
    BY <1>1, Widths DEF Unmap, Addresses

\* A prefix inside the mapped block, unmapped.
LEMMA UnmappedIs ==
    ASSUME NEW p \in AllPrefixes, p.family = 6, p.bits > W6 - W4
    PROVE  /\ Unmapped(p) \in AllPrefixes
           /\ Unmapped(p).family = 4 /\ Unmapped(p).bits = p.bits - (W6 - W4)
           /\ Unmapped(p).addr = Unmap(p.addr)
  <1>1. p.addr \in Addresses(6) /\ p.bits \in 0 .. W6
    BY PrefixShape, Widths
  <1>2. Unmap(p.addr) \in Addresses(4) /\ p.bits - (W6 - W4) \in 0 .. W4
    BY <1>1, UnmapType, Widths
  <1>3. Unmapped(p) = [family |-> 4, addr |-> Unmap(p.addr), bits |-> p.bits - (W6 - W4)]
    BY DEF Unmapped
  <1> QED
    BY <1>2, <1>3, PrefixShape, Widths

\* A prefix is written inside the mapped block exactly when its mask is.
LEMMA MaskedMapped ==
    ASSUME NEW p \in AllPrefixes, p.family = 6, p.bits >= W6 - W4
    PROVE  IsMapped(Masked(p).addr) <=> IsMapped(p.addr)
  <1>1. \A i \in 1 .. W6 - W4 : i \in 1 .. W6 /\ i <= p.bits
    BY PrefixShape, Widths
  <1> QED
    BY <1>1, MaskedIs, Widths DEF IsMapped

\* canonicalPrefix yields a canonical prefix: it changes nothing the second time.
LEMMA CanonicalType ==
    ASSUME NEW p \in AllPrefixes
    PROVE  canonicalPrefix(p) \in Canonical
  <1>1. p.family \in {4, 6} /\ p.bits \in 0 .. Width(p.family)
    BY PrefixShape
  <1>2. CASE Is4In6(p) /\ p.bits > W6 - W4
    <2> DEFINE q == Masked(Unmapped(p))
    <2>1. p.family = 6
      BY <1>2 DEF Is4In6
    <2>2. q \in AllPrefixes /\ q.family = 4 /\ Masked(q) = q
      BY <1>2, <2>1, UnmappedIs, MaskedIs, MaskedTwice
    <2>3. canonicalPrefix(p) = q
      BY <1>2 DEF canonicalPrefix
    <2> HIDE DEF q
    <2>4. canonicalPrefix(q) = q
      BY <2>2 DEF canonicalPrefix, Is4In6
    <2> QED
      BY <2>2, <2>3, <2>4 DEF Canonical
  <1>3. CASE ~(Is4In6(p) /\ p.bits > W6 - W4)
    <2> DEFINE q == Masked(p)
    <2>1. q \in AllPrefixes /\ q.family = p.family /\ q.bits = p.bits /\ Masked(q) = q
      BY MaskedIs, MaskedTwice
    <2>2. canonicalPrefix(p) = q
      BY <1>3 DEF canonicalPrefix
    <2>3. ~(Is4In6(q) /\ q.bits > W6 - W4)
      BY <1>1, <1>3, <2>1, MaskedMapped, Widths DEF Is4In6
    <2> HIDE DEF q
    <2>4. canonicalPrefix(q) = q
      BY <2>1, <2>3 DEF canonicalPrefix
    <2> QED
      BY <2>1, <2>2, <2>4 DEF Canonical
  <1> QED
    BY <1>2, <1>3

-----------------------------------------------------------------------------
(* Hosts. *)

\* A canonical prefix names the addresses it covers, and none twice.
LEMMA HostsOfCanonical ==
    ASSUME NEW p \in Canonical
    PROVE  Hosts(p) = {<<p.family, a>> : a \in Covered(p)}
  <1>1. p \in AllPrefixes /\ canonicalPrefix(p) = p
    BY DEF Canonical
  <1>2. ASSUME Is4In6(p), p.bits > W6 - W4 PROVE FALSE
    <2>1. p.family = 6
      BY <1>2 DEF Is4In6
    <2>2. canonicalPrefix(p).family = 4
      BY <1>1, <1>2, <2>1, UnmappedIs, MaskedIs DEF canonicalPrefix
    <2> QED
      BY <1>1, <2>1, <2>2
  <1> QED
    BY <1>2 DEF Hosts

\* Masking changes no address that is covered.
LEMMA CoveredMasked ==
    ASSUME NEW p \in AllPrefixes
    PROVE  Covered(Masked(p)) = Covered(p)
  <1>1. p.family \in {4, 6} /\ p.bits \in 0 .. Width(p.family)
    BY PrefixShape
  <1>2. \A i \in 1 .. p.bits : Masked(p).addr[i] = p.addr[i]
    BY <1>1, MaskedIs, Widths
  <1> QED
    BY <1>2, MaskedIs DEF Covered, InPrefix

\* The IPv4 hosts of a prefix inside the mapped block are those it covers unmapped.
LEMMA CoveredUnmapped ==
    ASSUME NEW p \in AllPrefixes, p.family = 6, p.bits > W6 - W4
    PROVE  {Unmap(a) : a \in Covered(p)} = Covered(Unmapped(p))
  <1> DEFINE n == W6 - W4
             u == Unmapped(p)
  <1>1. /\ u.family = 4 /\ u.bits = p.bits - n /\ u.addr = Unmap(p.addr)
        /\ p.addr \in Addresses(6) /\ p.bits \in 0 .. W6
        /\ n \in Nat \ {0} /\ W6 = n + W4 /\ W4 \in Nat \ {0}
    BY UnmappedIs, PrefixShape, Widths
  <1>2. ASSUME NEW a \in Covered(p) PROVE Unmap(a) \in Covered(u)
    <2>1. a \in Addresses(6) /\ \A i \in 1 .. p.bits : a[i] = p.addr[i]
      BY <1>2 DEF Covered, InPrefix
    <2>2. Unmap(a) \in Addresses(4)
      BY <2>1, UnmapType
    <2>3. \A i \in 1 .. p.bits - n : i \in 1 .. W4 /\ n + i \in 1 .. p.bits
      BY <1>1
    <2>4. \A i \in 1 .. p.bits - n : Unmap(a)[i] = Unmap(p.addr)[i]
      BY <2>1, <2>3 DEF Unmap
    <2> HIDE DEF u, n
    <2> QED
      BY <1>1, <2>2, <2>4 DEF Covered, InPrefix
  <1>3. ASSUME NEW b \in Covered(u) PROVE \E a \in Covered(p) : Unmap(a) = b
    <2> DEFINE a == [i \in 1 .. W6 |-> IF i <= n THEN p.addr[i] ELSE b[i - n]]
    <2>1. b \in [1 .. W4 -> {0, 1}] /\ \A i \in 1 .. p.bits - n : b[i] = Unmap(p.addr)[i]
      BY <1>1, <1>3, Widths DEF Covered, InPrefix, Addresses
    <2>2. a \in Addresses(6)
      <3>1. \A i \in 1 .. W6 : i <= n \/ i - n \in 1 .. W4
        BY <1>1
      <3> QED
        BY <1>1, <2>1, <3>1, Widths DEF Addresses
    <2>3. \A i \in 1 .. p.bits : a[i] = p.addr[i]
      <3>1. \A i \in 1 .. p.bits : i \in 1 .. W6 /\ (i <= n \/ i - n \in 1 .. p.bits - n)
        BY <1>1
      <3>2. \A j \in 1 .. p.bits - n : j \in 1 .. W4
        BY <1>1
      <3>3. \A j \in 1 .. p.bits - n : b[j] = p.addr[n + j]
        BY <2>1, <3>2 DEF Unmap
      <3>4. \A i \in 1 .. p.bits : i <= n \/ b[i - n] = p.addr[i]
        BY <1>1, <3>1, <3>3
      <3> QED
        BY <3>1, <3>4
    <2>4. Unmap(a) = b
      <3>1. \A i \in 1 .. W4 : n + i \in 1 .. W6 /\ ~(n + i <= n) /\ (n + i) - n = i
        BY <1>1
      <3>2. \A i \in 1 .. W4 : a[n + i] = b[i]
        BY <3>1
      <3>3. Unmap(a) = [i \in 1 .. W4 |-> b[i]]
        <4> HIDE DEF a
        <4> QED
          BY <3>2 DEF Unmap
      <3> QED
        BY <2>1, <3>3
    <2>5. a \in Covered(p)
      <3> HIDE DEF a, n
      <3> QED
        BY <1>1, <2>2, <2>3 DEF Covered, InPrefix
    <2> QED
      BY <2>4, <2>5
  <1> HIDE DEF u
  <1>4. {Unmap(a) : a \in Covered(p)} = Covered(u)
    BY <1>2, <1>3
  <1> QED
    BY <1>4 DEF u

\* canonicalPrefix changes the way a prefix is written, not the hosts it names.
LEMMA HostsCanonical ==
    ASSUME NEW p \in AllPrefixes
    PROVE  Hosts(canonicalPrefix(p)) = Hosts(p)
  <1>1. Hosts(canonicalPrefix(p))
          = {<<canonicalPrefix(p).family, a>> : a \in Covered(canonicalPrefix(p))}
    BY CanonicalType, HostsOfCanonical
  <1>2. CASE Is4In6(p) /\ p.bits > W6 - W4
    <2>1. p.family = 6
      BY <1>2 DEF Is4In6
    <2>2. canonicalPrefix(p) = Masked(Unmapped(p)) /\ Unmapped(p) \in AllPrefixes
      BY <1>2, <2>1, UnmappedIs DEF canonicalPrefix
    <2>3. canonicalPrefix(p).family = 4 /\ Covered(canonicalPrefix(p)) = Covered(Unmapped(p))
      BY <1>2, <2>1, <2>2, UnmappedIs, MaskedIs, CoveredMasked
    <2>4. Covered(Unmapped(p)) = {Unmap(a) : a \in Covered(p)}
      BY <1>2, <2>1, CoveredUnmapped
    <2>5. Hosts(p) = {<<4, Unmap(a)>> : a \in Covered(p)}
      BY <1>2 DEF Hosts
    <2> QED
      BY <1>1, <2>3, <2>4, <2>5
  <1>3. CASE ~(Is4In6(p) /\ p.bits > W6 - W4)
    <2>1. canonicalPrefix(p).family = p.family /\ Covered(canonicalPrefix(p)) = Covered(p)
      BY <1>3, MaskedIs, CoveredMasked DEF canonicalPrefix
    <2>2. Hosts(p) = {<<p.family, a>> : a \in Covered(p)}
      BY <1>3 DEF Hosts
    <2> QED
      BY <1>1, <2>1, <2>2
  <1> QED
    BY <1>2, <1>3

\* Two prefixes overlap exactly when they cover a common address: one contains
\* the other, so that comparing their network addresses is enough.
LEMMA OverlapCovers ==
    ASSUME NEW p \in AllPrefixes, NEW q \in AllPrefixes
    PROVE  prefixesOverlap(p, q) <=> p.family = q.family /\ Covered(p) \cap Covered(q) # {}
  <1>1. /\ p.addr \in Addresses(p.family) /\ q.addr \in Addresses(q.family)
        /\ p.bits \in Nat /\ q.bits \in Nat
    BY PrefixShape, Widths
  <1>2. p.addr \in Covered(p) /\ q.addr \in Covered(q)
    BY <1>1 DEF Covered, InPrefix
  <1>3. ASSUME prefixesOverlap(p, q)
        PROVE  p.family = q.family /\ Covered(p) \cap Covered(q) # {}
    <2>1. p.family = q.family
      BY <1>3 DEF prefixesOverlap, InPrefix
    <2>2. q.addr \in Covered(p) \/ p.addr \in Covered(q)
      BY <1>1, <1>3, <2>1 DEF prefixesOverlap, Covered
    <2> QED
      BY <1>2, <2>1, <2>2
  <1>4. ASSUME p.family = q.family, NEW a \in Covered(p) \cap Covered(q)
        PROVE  prefixesOverlap(p, q)
    <2>1. /\ \A i \in 1 .. p.bits : a[i] = p.addr[i]
          /\ \A i \in 1 .. q.bits : a[i] = q.addr[i]
      BY DEF Covered, InPrefix
    <2>2. CASE p.bits <= q.bits
      <3>1. \A i \in 1 .. p.bits : i \in 1 .. q.bits
        BY <1>1, <2>2
      <3> QED
        BY <1>4, <2>1, <3>1 DEF prefixesOverlap, InPrefix
    <2>3. CASE q.bits <= p.bits
      <3>1. \A i \in 1 .. q.bits : i \in 1 .. p.bits
        BY <1>1, <2>3
      <3> QED
        BY <1>4, <2>1, <3>1 DEF prefixesOverlap, InPrefix
    <2> QED
      BY <1>1, <2>2, <2>3
  <1> QED
    BY <1>3, <1>4

\* Canonical prefixes overlap exactly when they name a common host.
LEMMA OverlapHosts ==
    ASSUME NEW p \in Canonical, NEW q \in Canonical
    PROVE  prefixesOverlap(p, q) <=> Hosts(p) \cap Hosts(q) # {}
  <1>1. /\ Hosts(p) = {<<p.family, a>> : a \in Covered(p)}
        /\ Hosts(q) = {<<q.family, a>> : a \in Covered(q)}
    BY HostsOfCanonical
  <1>2. prefixesOverlap(p, q) <=> p.family = q.family /\ Covered(p) \cap Covered(q) # {}
    BY OverlapCovers DEF Canonical
  <1>3. ASSUME Hosts(p) \cap Hosts(q) # {}
        PROVE  p.family = q.family /\ Covered(p) \cap Covered(q) # {}
    <2>1. PICK h \in Hosts(p) : h \in Hosts(q)
      BY <1>3
    <2>2. PICK a \in Covered(p) : h = <<p.family, a>>
      BY <1>1
    <2>3. PICK b \in Covered(q) : h = <<q.family, b>>
      BY <1>1, <2>1
    <2>4. p.family = q.family /\ a = b
      BY <2>2, <2>3
    <2> QED
      BY <2>4
  <1>4. ASSUME p.family = q.family, NEW a \in Covered(p) \cap Covered(q)
        PROVE  Hosts(p) \cap Hosts(q) # {}
    <2>1. <<p.family, a>> \in Hosts(p) \cap Hosts(q)
      BY <1>1, <1>4
    <2> QED
      BY <2>1
  <1> QED
    BY <1>2, <1>3, <1>4

\* The mapped block is canonical.
LEMMA BlockCanonical == MappedBlock \in Canonical
  <1> DEFINE b == MappedBlock
  <1>1. b \in AllPrefixes
    BY PipelineAssumption
  <1>2. b.family = 6 /\ b.bits = W6 - W4 /\ DOMAIN b.addr = 1 .. W6
    BY DEF MappedBlock
  <1>3. [i \in DOMAIN b.addr |-> IF i <= b.bits THEN b.addr[i] ELSE 0] = b.addr
    BY <1>2 DEF MappedBlock
  <1>4. Masked(b) = b
    <2>1. Masked(b) = [b EXCEPT !.addr = b.addr]
      BY <1>3 DEF Masked
    <2> QED
      BY <2>1 DEF MappedBlock
  <1>5. canonicalPrefix(b) = b
    BY <1>2, <1>4, Widths DEF canonicalPrefix
  <1> QED
    BY <1>1, <1>5 DEF Canonical

\* A prefix that does not overlap the mapped block covers no mapped address, so
\* it denies only the hosts it names.
LEMMA NothingMapped ==
    ASSUME NEW p \in Canonical, ~prefixesOverlap(p, MappedBlock)
    PROVE  Denied(p) = Hosts(p)
  <1> SUFFICES ASSUME NEW h \in Hosts(p), h[1] = 6, IsMapped(h[2])
               PROVE  prefixesOverlap(p, MappedBlock)
    BY DEF Denied
  <1>1. PICK a \in Covered(p) : h = <<p.family, a>>
    BY HostsOfCanonical
  <1>2. p.family = 6 /\ IsMapped(a) /\ p \in AllPrefixes
    BY <1>1 DEF Canonical
  <1>3. a \in Addresses(6)
    BY <1>2 DEF Covered
  <1>4. \A i \in 1 .. W6 - W4 : i \in 1 .. W6 /\ i <= W6 - W4
    BY Widths
  <1>5. \A i \in 1 .. W6 - W4 : MappedBlock.addr[i] = a[i]
    BY <1>2, <1>4 DEF MappedBlock, IsMapped
  <1>6. a \in Covered(MappedBlock) /\ MappedBlock.family = 6
    BY <1>3, <1>5 DEF Covered, InPrefix, MappedBlock
  <1> QED
    BY <1>1, <1>2, <1>6, OverlapCovers, PipelineAssumption

-----------------------------------------------------------------------------
(* The invariant. *)

CanonicalLines == {canonicalPrefix(l) : l \in lines}

\* Between the reads, the cycle holds the lines of the first; from the second to
\* the end of a cycle that succeeds, the filters are the lines of both.
FiltersLoaded ==
    /\ pc # "idle" \/ result = "ok" => Malformed \notin lines /\ Defaults \subseteq lines
    /\ pc = "exceptions" => protected = CanonicalLines
    /\ pc \in {"fetch", "filter"} \/ result = "ok" =>
          filters.protected \cup filters.exceptions = CanonicalLines

\* The list is what they leave of the feed.
ListFiltered ==
    result = "ok" =>
        /\ pc = "idle" /\ Parses(body)
        /\ desired = {p \in Parsed(body) : \A f \in CanonicalLines : ~prefixesOverlap(p, f)}

\* Another request is made only after transient answers, and within the limit.
FetchMayRetry ==
    /\ pc = "exceptions" => answers = <<>>
    /\ pc = "fetch" => /\ Len(answers) < MaxAttempts
                       /\ \A i \in 1 .. Len(answers) : answers[i] \in Transient

IInv == TypeOK /\ FiltersLoaded /\ ListFiltered /\ FetchMayRetry /\ OnlyTransientIsRetried

\* The texts are sequences of lines.
LEMMA Texts ==
    /\ \A t \in ProtectedFiles \cup ExceptionsFiles \cup EditedFiles \cup Bodies \cup {<<>>} :
          ToSet(t) \subseteq Lines
    /\ Defaults \subseteq AllPrefixes
  <1>1. \A t \in Seq(Lines) : ToSet(t) \subseteq Lines
    BY DEF ToSet
  <1>2. <<>> \in Seq(Lines)
    OBVIOUS
  <1> QED
    BY <1>1, <1>2, PipelineAssumption

\* Prefixes are parsed into canonical prefixes.
LEMMA CanonicalSet ==
    ASSUME NEW S, S \subseteq AllPrefixes
    PROVE  {canonicalPrefix(p) : p \in S} \subseteq Canonical
  BY CanonicalType

\* So is a text in which every line parses.
LEMMA ParsedType ==
    ASSUME NEW t, ToSet(t) \subseteq Lines, Parses(t)
    PROVE  ToSet(t) \subseteq AllPrefixes /\ Parsed(t) \subseteq Canonical
  <1>1. ToSet(t) \subseteq AllPrefixes
    BY DEF Parses, Lines
  <1> QED
    BY <1>1, CanonicalSet DEF Parsed

\* With the built-in ranges, too.
LEMMA DefaultsType ==
    ASSUME NEW t, ToSet(t) \subseteq Lines, Parses(t)
    PROVE  /\ WithDefaults(t) \subseteq Canonical
           /\ WithDefaults(t) = {canonicalPrefix(l) : l \in Defaults \cup ToSet(t)}
  <1>1. Parsed(t) \subseteq Canonical
    BY ParsedType
  <1>2. {canonicalPrefix(p) : p \in Defaults} \subseteq Canonical
    BY Texts, CanonicalSet
  <1> QED
    BY <1>1, <1>2 DEF WithDefaults, Parsed

\* One more answer.
LEMMA OneMoreAnswer ==
    ASSUME NEW S, NEW n \in Nat, NEW s \in SeqOf(S, n), Len(s) < n, NEW x \in S
    PROVE  /\ Append(s, x) \in SeqOf(S, n) /\ Len(Append(s, x)) = Len(s) + 1
           /\ \A i \in 1 .. Len(s) : Append(s, x)[i] = s[i]
  <1>1. PICK m \in 0 .. n : s \in [1 .. m -> S]
    BY DEF SeqOf
  <1>2. s \in Seq(S) /\ Len(s) = m
    BY <1>1
  <1>3. Append(s, x) \in Seq(S) /\ Len(Append(s, x)) = m + 1
    BY <1>2
  <1>4. Append(s, x) \in [1 .. m + 1 -> S]
    <2> DEFINE t == Append(s, x)
    <2>1. t \in Seq(S) /\ Len(t) = m + 1
      BY <1>3
    <2> HIDE DEF t
    <2>2. t \in [1 .. m + 1 -> S]
      BY <2>1
    <2> QED
      BY <2>2 DEF t
  <1>5. m + 1 \in 0 .. n
    BY <1>2
  <1> QED
    BY <1>2, <1>3, <1>4, <1>5 DEF SeqOf

\* A bounded sequence is no longer than its bound.
LEMMA AnswersType ==
    ASSUME NEW S, NEW n \in Nat, NEW s \in SeqOf(S, n)
    PROVE  Len(s) \in 0 .. n
  BY DEF SeqOf

\* No answers are a sequence of answers.
LEMMA NoAnswers ==
    ASSUME NEW S, NEW n \in Nat
    PROVE  <<>> \in SeqOf(S, n)
  <1>1. <<>> \in [1 .. 0 -> S] /\ 0 \in 0 .. n
    OBVIOUS
  <1> QED
    BY <1>1 DEF SeqOf

\* A process has just started.
LEMMA InitInv == Init => IInv
  <1> SUFFICES ASSUME Init PROVE IInv
    OBVIOUS
  <1>1. /\ protectedFile \in ProtectedFiles /\ exceptionsFile \in ExceptionsFiles
        /\ Parses(protectedFile) /\ Parses(exceptionsFile)
        /\ filters = [protected |-> WithDefaults(protectedFile), exceptions |-> Parsed(exceptionsFile)]
        /\ protected = {} /\ lines = {} /\ pc = "idle" /\ answers = <<>> /\ body = <<>>
        /\ desired = {} /\ result = "none" /\ edits = 0
    BY DEF Init
  <1>2. filters.protected \subseteq Canonical /\ filters.exceptions \subseteq Canonical
    BY <1>1, Texts, DefaultsType, ParsedType
  <1>3. answers \in SeqOf(Transient \cup Final \cup {"ok"}, MaxAttempts)
    BY <1>1, NoAnswers, PipelineAssumption
  <1>4. TypeOK
    BY <1>1, <1>2, <1>3, PipelineAssumption DEF TypeOK
  <1>5. OnlyTransientIsRetried
    BY <1>1 DEF OnlyTransientIsRetried
  <1> QED
    BY <1>1, <1>4, <1>5 DEF IInv, FiltersLoaded, ListFiltered, FetchMayRetry

\* The filters that leave nothing of an empty overlap, one after the other.
LEMMA BothFilters ==
    ASSUME NEW S, NEW A, NEW B
    PROVE  FilterOverlaps(FilterOverlaps(S, A), B)
             = {p \in S : \A f \in A \cup B : ~prefixesOverlap(p, f)}
  BY DEF FilterOverlaps

\* The files, whoever wrote them, are sequences of lines.
LEMMA FileLines == TypeOK => /\ ToSet(protectedFile) \subseteq Lines
                             /\ ToSet(exceptionsFile) \subseteq Lines
                             /\ ToSet(body) \subseteq Lines
  BY Texts DEF TypeOK

\* The cycle reads the protected ranges, or it fails.
LEMMA ReadProtectedInv == IInv /\ ReadProtected => IInv'
  <1> SUFFICES ASSUME IInv, ReadProtected PROVE IInv'
    OBVIOUS
  <1>1. /\ answers' = <<>> /\ body' = <<>> /\ desired' = {}
        /\ lines' = Defaults \cup ToSet(protectedFile)
        /\ UNCHANGED <<files, filters>>
    BY DEF ReadProtected
  <1>2. answers' \in SeqOf(Transient \cup Final \cup {"ok"}, MaxAttempts)
    BY <1>1, NoAnswers, PipelineAssumption
  <1>3. lines' \subseteq Lines
    BY <1>1, FileLines, Texts DEF IInv, Lines
  <1>4. FetchMayRetry' /\ OnlyTransientIsRetried'
    BY <1>1, PipelineAssumption DEF FetchMayRetry, OnlyTransientIsRetried
  <1>5. CASE /\ Parses(protectedFile) /\ protected' = WithDefaults(protectedFile)
             /\ pc' = "exceptions" /\ result' = "none"
    <2>1. protected' \subseteq Canonical /\ protected' = {canonicalPrefix(l) : l \in lines'}
      BY <1>1, <1>5, FileLines, DefaultsType DEF IInv
    <2>2. Malformed \notin lines' /\ Defaults \subseteq lines'
      BY <1>1, <1>5, PipelineAssumption DEF Parses
    <2>3. TypeOK'
      BY <1>1, <1>2, <1>3, <1>5, <2>1 DEF IInv, TypeOK, files
    <2> QED
      BY <1>4, <1>5, <2>1, <2>2, <2>3 DEF IInv, FiltersLoaded, ListFiltered, CanonicalLines
  <1>6. CASE protected' = {} /\ Ends("failed")
    <2>1. TypeOK'
      BY <1>1, <1>2, <1>3, <1>6 DEF IInv, TypeOK, files, Ends
    <2> QED
      BY <1>4, <1>6, <2>1 DEF IInv, FiltersLoaded, ListFiltered, Ends
  <1> QED
    BY <1>5, <1>6 DEF ReadProtected

\* It reads the exceptions and loads both lists, or it fails with the filters
\* it had.
LEMMA ReadExceptionsInv == IInv /\ ReadExceptions => IInv'
  <1> SUFFICES ASSUME IInv, ReadExceptions PROVE IInv'
    OBVIOUS
  <1>1. /\ pc = "exceptions" /\ protected' = {}
        /\ lines' = lines \cup ToSet(exceptionsFile)
        /\ UNCHANGED <<files, answers, body, desired>>
    BY DEF ReadExceptions
  <1>2. lines' \subseteq Lines
    BY <1>1, FileLines DEF IInv, TypeOK
  <1>3. answers = <<>> => FetchMayRetry'
    BY <1>1, PipelineAssumption DEF FetchMayRetry
  <1>4. OnlyTransientIsRetried'
    BY <1>1 DEF IInv, OnlyTransientIsRetried
  <1>5. CASE /\ Parses(exceptionsFile) /\ pc' = "fetch" /\ UNCHANGED result
             /\ filters' = [protected |-> protected, exceptions |-> Parsed(exceptionsFile)]
    <2>1. protected \subseteq Canonical /\ Parsed(exceptionsFile) \subseteq Canonical
      BY <1>5, FileLines, ParsedType DEF IInv, TypeOK
    <2>2. filters'.protected = protected /\ filters'.exceptions = Parsed(exceptionsFile)
      BY <1>5
    <2>3. filters'.protected \cup filters'.exceptions = {canonicalPrefix(l) : l \in lines'}
      <3>1. protected = {canonicalPrefix(l) : l \in lines}
        BY <1>1 DEF IInv, FiltersLoaded, CanonicalLines
      <3> QED
        BY <1>1, <2>2, <3>1 DEF Parsed
    <2>4. Malformed \notin lines' /\ Defaults \subseteq lines'
      BY <1>1, <1>5 DEF IInv, FiltersLoaded, Parses
    <2>5. TypeOK'
      BY <1>1, <1>2, <1>5, <2>1, <2>2 DEF IInv, TypeOK, files
    <2>6. result # "ok" /\ answers = <<>>
      BY <1>1 DEF IInv, ListFiltered, FetchMayRetry
    <2> QED
      BY <1>3, <1>4, <1>5, <2>3, <2>4, <2>5, <2>6
      DEF IInv, FiltersLoaded, ListFiltered, CanonicalLines
  <1>6. CASE UNCHANGED filters /\ Ends("failed")
    <2>1. TypeOK'
      BY <1>1, <1>2, <1>6 DEF IInv, TypeOK, files, Ends
    <2> QED
      BY <1>4, <1>6, <2>1 DEF IInv, FiltersLoaded, ListFiltered, FetchMayRetry, Ends
  <1> QED
    BY <1>1, <1>5, <1>6 DEF ReadExceptions

\* After one more answer, all but the last are transient.
LEMMA AnswerInv ==
    ASSUME IInv, pc = "fetch", NEW a \in Transient \cup Final \cup {"ok"},
           answers' = Append(answers, a)
    PROVE  /\ answers' \in SeqOf(Transient \cup Final \cup {"ok"}, MaxAttempts)
           /\ Len(answers') = Len(answers) + 1 /\ Len(answers) \in Nat
           /\ OnlyTransientIsRetried'
           /\ a \in Transient => \A i \in 1 .. Len(answers') : answers'[i] \in Transient
  <1> DEFINE S == Transient \cup Final \cup {"ok"}
             n == MaxAttempts
  <1>1. n \in Nat /\ answers \in SeqOf(S, n) /\ Len(answers) < n
    BY PipelineAssumption DEF IInv, TypeOK, FetchMayRetry
  <1>2. \A i \in 1 .. Len(answers) : answers[i] \in Transient
    BY DEF IInv, FetchMayRetry
  <1> HIDE DEF S, n
  <1>3. Len(answers) \in Nat
    BY <1>1, AnswersType
  <1>4. a \in S
    BY DEF S
  <1>5. /\ answers' \in SeqOf(S, n) /\ Len(answers') = Len(answers) + 1
        /\ \A i \in 1 .. Len(answers) : answers'[i] = answers[i]
    BY <1>1, <1>4, OneMoreAnswer
  <1>6. answers'[Len(answers')] = a
    <2>1. answers \in Seq(S)
      BY <1>1 DEF SeqOf
    <2> QED
      BY <1>4, <2>1
  <1>7. \A i \in 1 .. Len(answers') - 1 : answers'[i] \in Transient
    BY <1>2, <1>3, <1>5
  <1>8. a \in Transient => \A i \in 1 .. Len(answers') : answers'[i] \in Transient
    BY <1>2, <1>3, <1>5, <1>6
  <1> QED
    BY <1>3, <1>5, <1>7, <1>8 DEF OnlyTransientIsRetried, S, n

\* The feed delivers.
LEMMA FetchOKInv == IInv /\ FetchOK => IInv'
  <1> SUFFICES ASSUME IInv, FetchOK PROVE IInv'
    OBVIOUS
  <1>1. /\ pc = "fetch" /\ pc' = "filter" /\ answers' = Append(answers, "ok") /\ body' \in Bodies
        /\ UNCHANGED <<files, filters, protected, lines, desired, result>>
    BY DEF FetchOK
  <1>2. /\ answers' \in SeqOf(Transient \cup Final \cup {"ok"}, MaxAttempts)
        /\ OnlyTransientIsRetried'
    BY <1>1, AnswerInv
  <1>3. TypeOK'
    BY <1>1, <1>2 DEF IInv, TypeOK, files
  <1> QED
    BY <1>1, <1>2, <1>3 DEF IInv, FiltersLoaded, ListFiltered, FetchMayRetry, CanonicalLines

\* A request fails, and Fetch gives up or tries again.
LEMMA FetchFailsInv == IInv /\ FetchFails => IInv'
  <1> SUFFICES ASSUME IInv, FetchFails PROVE IInv'
    OBVIOUS
  <1>1. PICK a \in Transient \cup Final :
           /\ answers' = Append(answers, a)
           /\ \/ GivesUp(a) /\ Ends("failed")
              \/ ~GivesUp(a) /\ UNCHANGED <<pc, result>>
    BY DEF FetchFails
  <1>2. pc = "fetch" /\ UNCHANGED <<files, filters, protected, lines, body, desired>>
    BY DEF FetchFails
  <1>3. /\ answers' \in SeqOf(Transient \cup Final \cup {"ok"}, MaxAttempts)
        /\ Len(answers') = Len(answers) + 1 /\ Len(answers) \in Nat
        /\ OnlyTransientIsRetried'
        /\ a \in Transient => \A i \in 1 .. Len(answers') : answers'[i] \in Transient
    BY <1>1, <1>2, AnswerInv
  <1>4. CASE Ends("failed")
    <2>1. TypeOK'
      BY <1>2, <1>3, <1>4 DEF IInv, TypeOK, files, Ends
    <2> QED
      BY <1>2, <1>3, <1>4, <2>1
      DEF IInv, FiltersLoaded, ListFiltered, FetchMayRetry, CanonicalLines, Ends
  <1>5. CASE ~GivesUp(a) /\ UNCHANGED <<pc, result>>
    <2>1. TypeOK'
      BY <1>2, <1>3, <1>5 DEF IInv, TypeOK, files
    <2>2. a \in Transient /\ Len(answers) + 1 # MaxAttempts
      BY <1>5 DEF GivesUp
    <2>3. FetchMayRetry'
      <3>1. Len(answers) < MaxAttempts /\ pc' # "exceptions"
        BY <1>2, <1>5 DEF IInv, FetchMayRetry
      <3>2. Len(answers') < MaxAttempts
        BY <1>3, <2>2, <3>1, PipelineAssumption
      <3> QED
        BY <1>3, <2>2, <3>1, <3>2 DEF FetchMayRetry
    <2> QED
      BY <1>2, <1>3, <1>5, <2>1, <2>3
      DEF IInv, FiltersLoaded, ListFiltered, CanonicalLines
  <1> QED
    BY <1>1, <1>4, <1>5

\* Both filters are applied, or the feed does not parse or is too short.
LEMMA FilterInv == IInv /\ Filter => IInv'
  <1> SUFFICES ASSUME IInv, Filter PROVE IInv'
    OBVIOUS
  <1> DEFINE kept == FilterOverlaps(FilterOverlaps(Parsed(body), filters.protected), filters.exceptions)
  <1>1. pc = "filter" /\ pc' = "idle" /\ UNCHANGED <<files, filters, protected, lines, answers, body>>
    BY DEF Filter, Ends
  <1>2. \/ result' = "failed" /\ UNCHANGED desired
        \/ Parses(body) /\ result' = "ok" /\ desired' = kept
    BY DEF Filter, Ends
  <1>3. kept = {p \in Parsed(body) : \A f \in CanonicalLines : ~prefixesOverlap(p, f)}
    <2>1. filters.protected \cup filters.exceptions = CanonicalLines
      BY <1>1 DEF IInv, FiltersLoaded
    <2> QED
      BY <2>1, BothFilters
  <1>4. Parses(body) => kept \subseteq Canonical
    BY <1>3, FileLines, ParsedType DEF IInv
  <1> HIDE DEF kept
  <1>5. TypeOK'
    BY <1>1, <1>2, <1>4 DEF IInv, TypeOK, files
  <1>6. FiltersLoaded' /\ OnlyTransientIsRetried' /\ FetchMayRetry'
    BY <1>1 DEF IInv, FiltersLoaded, OnlyTransientIsRetried, FetchMayRetry, CanonicalLines
  <1>7. ListFiltered'
    BY <1>1, <1>2, <1>3 DEF ListFiltered, CanonicalLines, Parses, Parsed, prefixesOverlap
  <1> QED
    BY <1>5, <1>6, <1>7 DEF IInv

\* Every step of the cycle, and an edit of the files, keeps the invariant.
LEMMA NextInv == IInv /\ [Next]_vars => IInv'
  <1> SUFFICES ASSUME IInv, [Next]_vars PROVE IInv'
    OBVIOUS
  <1>1. CASE Edit
    <2>1. /\ protectedFile' \in EditedFiles /\ exceptionsFile' \in EditedFiles
          /\ edits < MaxEdits /\ edits' = edits + 1
          /\ UNCHANGED <<filters, protected, lines, pc, answers, body, desired, result>>
      BY <1>1 DEF Edit
    <2>2. edits' \in 0 .. MaxEdits
      BY <2>1, PipelineAssumption DEF IInv, TypeOK
    <2>3. TypeOK'
      BY <2>1, <2>2 DEF IInv, TypeOK
    <2> QED
      BY <2>1, <2>3 DEF IInv, FiltersLoaded, ListFiltered, FetchMayRetry,
                        OnlyTransientIsRetried, CanonicalLines
  <1>2. CASE UNCHANGED vars
    BY <1>2 DEF vars, files, IInv, TypeOK, FiltersLoaded, ListFiltered, FetchMayRetry,
                OnlyTransientIsRetried, CanonicalLines
  <1> QED
    BY <1>1, <1>2, ReadProtectedInv, ReadExceptionsInv, FetchOKInv, FetchFailsInv, FilterInv DEF Next, Work

\* The invariant holds throughout.
LEMMA Inductive == Spec => []IInv
  BY InitInv, NextInv, PTL DEF Spec

-----------------------------------------------------------------------------
(* Theorems. *)

\* Every variable holds a value of its kind, and every prefix the process
\* stores is canonical, however the files and the feed write theirs.
THEOREM TypeCorrect == Spec => []TypeOK
  BY Inductive, PTL DEF IInv

\* Fetch repeats a request only after a transient answer, for every number of
\* attempts: whatever comes before the last answer of a cycle is transient.
THEOREM RetriesTransient == Spec => []OnlyTransientIsRetried
  BY Inductive, PTL DEF IInv

\* No host that a built-in range names, or a line that a filter file had when the
\* cycle read that file, is denied by the list of a successful cycle, in IPv4 or
\* IPv6, mapped or not, whatever is edited between the reads and after them.
THEOREM FiltersRespected == Spec => []NothingFilteredIsDenied
  <1>1. IInv => NothingFilteredIsDenied
    <2> SUFFICES ASSUME IInv, result = "ok", NEW p \in desired, NEW f \in lines \ {Malformed}
                 PROVE  Denied(p) \cap Hosts(f) = {}
      BY DEF NothingFilteredIsDenied
    <2>1. /\ p \in Canonical /\ f \in AllPrefixes
          /\ \A g \in CanonicalLines : ~prefixesOverlap(p, g)
      BY DEF IInv, TypeOK, ListFiltered, Lines
    <2>2. MappedBlock \in CanonicalLines
      <3>1. MappedBlock \in lines
        BY PipelineAssumption DEF IInv, FiltersLoaded
      <3>2. canonicalPrefix(MappedBlock) = MappedBlock
        BY BlockCanonical DEF Canonical
      <3> QED
        BY <3>1, <3>2 DEF CanonicalLines
    <2>3. Denied(p) = Hosts(p)
      BY <2>1, <2>2, NothingMapped
    <2>4. ~prefixesOverlap(p, canonicalPrefix(f)) /\ canonicalPrefix(f) \in Canonical
      BY <2>1, CanonicalType DEF CanonicalLines
    <2>5. Hosts(p) \cap Hosts(canonicalPrefix(f)) = {}
      BY <2>1, <2>4, OverlapHosts
    <2> QED
      BY <2>1, <2>3, <2>5, HostsCanonical
  <1> QED
    BY <1>1, Inductive, PTL

\* The filters take nothing else out: every entry of the feed is in the list,
\* in canonical form, or shares a host with a line of the filters.
THEOREM FiltersExact == Spec => []NothingElseIsDropped
  <1>1. IInv => NothingElseIsDropped
    <2> SUFFICES ASSUME IInv, result = "ok", NEW p \in ToSet(body),
                        \A f \in lines \ {Malformed} : Hosts(p) \cap Hosts(f) = {}
                 PROVE  Hosts(p) \subseteq UNION {Hosts(q) : q \in desired}
      BY DEF NothingElseIsDropped
    <2> DEFINE c == canonicalPrefix(p)
    <2>1. p \in AllPrefixes /\ c \in Parsed(body)
      BY FileLines, ParsedType DEF IInv, ListFiltered, Parsed
    <2>2. c \in Canonical /\ Hosts(c) = Hosts(p)
      BY <2>1, CanonicalType, HostsCanonical
    <2>3. ASSUME NEW f \in lines PROVE ~prefixesOverlap(c, canonicalPrefix(f))
      <3>1. f \in AllPrefixes /\ f # Malformed
        BY DEF IInv, TypeOK, FiltersLoaded, Lines
      <3>2. canonicalPrefix(f) \in Canonical /\ Hosts(canonicalPrefix(f)) = Hosts(f)
        BY <3>1, CanonicalType, HostsCanonical
      <3>3. Hosts(c) \cap Hosts(canonicalPrefix(f)) = {}
        BY <2>2, <3>1, <3>2
      <3> HIDE DEF c
      <3> QED
        BY <2>2, <3>2, <3>3, OverlapHosts
    <2>4. c \in desired
      BY <2>1, <2>3 DEF IInv, ListFiltered, CanonicalLines
    <2> QED
      BY <2>2, <2>4
  <1> QED
    BY <1>1, Inductive, PTL
=============================================================================
