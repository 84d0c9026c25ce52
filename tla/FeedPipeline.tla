---------------------------- MODULE FeedPipeline ----------------------------
(***************************************************************************)
(* The front half of syncOnce: reloadFilters, the download with its        *)
(* retries (feed.go), the parsers and the overlap filters (validate.go).   *)
(* The mounted filter files can be edited between any two steps, also      *)
(* between the reads of the one and the other.                             *)
(*                                                                         *)
(* An address is its W4 or W6 bits, the first one leading; the IPv4-mapped *)
(* block is the IPv6 addresses that start with MappedTag.  A sorted list   *)
(* without duplicates is the set of its members.                           *)
(***************************************************************************)
EXTENDS Integers, Sequences, FiniteSets, SequencesExt

CONSTANTS
    W4, W6,        \* width of an address (32 and 128)
    MappedTag,     \* the leading W6 - W4 bits of ::ffff:0:0/96
    Malformed,     \* a line that does not parse
    Bodies,        \* the bodies of a feed: sequences of lines
    ProtectedFiles, ExceptionsFiles,   \* their contents at startup: sequences of lines
    EditedFiles,   \* what an edit can make of either
    Defaults,      \* defaultProtectedCIDRs
    MinEntries,    \* ABUSEIPDB_MIN_ENTRIES
    MaxAttempts,   \* attempts of one Fetch (3)
    MaxEdits       \* bound: edits of the filter files

Width(family) == IF family = 4 THEN W4 ELSE W6
Addresses(family) == [1 .. Width(family) -> {0, 1}]
AllPrefixes == UNION {[family : {family}, addr : Addresses(family), bits : 0 .. Width(family)] :
                         family \in {4, 6}}
Lines == AllPrefixes \cup {Malformed}

\* ::ffff:0:0/96.
MappedBlock == [family |-> 6,
                addr |-> [i \in 1 .. W6 |-> IF i <= W6 - W4 THEN MappedTag[i] ELSE 0],
                bits |-> W6 - W4]

ASSUME PipelineAssumption ==
    /\ W4 \in Nat \ {0} /\ W6 \in Nat /\ W6 > W4 /\ MappedTag \in [1 .. W6 - W4 -> {0, 1}]
    /\ Malformed \notin AllPrefixes
    /\ Bodies \subseteq Seq(Lines)
    /\ ProtectedFiles \cup ExceptionsFiles \cup EditedFiles \subseteq Seq(Lines)
    /\ Defaults \subseteq AllPrefixes /\ MappedBlock \in Defaults
    /\ MinEntries \in Nat /\ MaxAttempts \in Nat \ {0} /\ MaxEdits \in Nat

VARIABLES
    protectedFile,    \* the mounted protected-cidrs.txt
    exceptionsFile,   \* the mounted exceptions.txt
    filters,          \* cfg.Protected and cfg.Exceptions
    protected,        \* reloadFilters' protected, and the defaults
    lines,            \* the defaults, and the lines each file had when it was read
    pc,               \* the next step of the cycle
    answers,          \* the feed's answers to this cycle's requests
    body,             \* the body of the answer that was accepted
    desired,          \* syncOnce's desired
    result,           \* of the last cycle
    edits             \* edits of the files so far

files == <<protectedFile, exceptionsFile, edits>>
vars  == <<files, filters, protected, lines, pc, answers, body, desired, result>>

-----------------------------------------------------------------------------
(* Prefixes and filters. *)

Masked(p) == [p EXCEPT !.addr = [i \in DOMAIN p.addr |-> IF i <= p.bits THEN p.addr[i] ELSE 0]]

IsMapped(addr) == \A i \in 1 .. W6 - W4 : addr[i] = MappedTag[i]
Is4In6(p) == p.family = 6 /\ IsMapped(p.addr)
Unmap(addr) == [i \in 1 .. W4 |-> addr[W6 - W4 + i]]
Unmapped(p) == [family |-> 4, addr |-> Unmap(p.addr), bits |-> p.bits - (W6 - W4)]

\* Mutant of canonicalPrefix: the mapped block itself is unmapped, too.
canonicalPrefixWhole(p) ==
    IF Is4In6(p) /\ p.bits >= W6 - W4 THEN Masked(Unmapped(p)) ELSE Masked(p)

canonicalPrefix(p) ==
    IF Is4In6(p) /\ p.bits > W6 - W4 THEN Masked(Unmapped(p)) ELSE Masked(p)

\* netip.Prefix.Contains: never across families.
InPrefix(p, family, addr) == p.family = family /\ \A i \in 1 .. p.bits : addr[i] = p.addr[i]

\* Mutant of prefixesOverlap: an entry that is wider than the filter is missed.
prefixesOverlapInside(a, b) == InPrefix(b, a.family, a.addr)

prefixesOverlap(a, b) == InPrefix(a, b.family, b.addr) \/ InPrefix(b, a.family, a.addr)

FilterOverlaps(prefixes, filter) ==
    {p \in prefixes : \A f \in filter : ~prefixesOverlap(p, f)}

\* The parsers agree: every line parses, or there is no list at all.
Parses(text) == Malformed \notin ToSet(text)
Parsed(text) == {canonicalPrefix(p) : p \in ToSet(text)}

-----------------------------------------------------------------------------
(* The cycle. *)

\* loadPrefixList of the protected ranges, with the built-in ones.
WithDefaults(text) == {canonicalPrefix(p) : p \in Defaults} \cup Parsed(text)

\* LoadConfig read the files at startup.
Init ==
    /\ protectedFile \in ProtectedFiles /\ exceptionsFile \in ExceptionsFiles
    /\ Parses(protectedFile) /\ Parses(exceptionsFile)
    /\ filters = [protected |-> WithDefaults(protectedFile), exceptions |-> Parsed(exceptionsFile)]
    /\ protected = {} /\ lines = {} /\ pc = "idle" /\ answers = <<>> /\ body = <<>>
    /\ desired = {} /\ result = "none" /\ edits = 0

Ends(r) == pc' = "idle" /\ result' = r

\* A cycle begins with reloadFilters, which reads the protected ranges first.
ReadProtected ==
    /\ pc = "idle"
    /\ answers' = <<>> /\ body' = <<>> /\ desired' = {}
    /\ lines' = Defaults \cup ToSet(protectedFile)
    /\ \/ /\ Parses(protectedFile)
          /\ protected' = WithDefaults(protectedFile) /\ pc' = "exceptions" /\ result' = "none"
       \/ ~Parses(protectedFile) /\ protected' = {} /\ Ends("failed")
    /\ UNCHANGED <<files, filters>>

\* Then the exceptions; the filters of the process change with both lists or
\* with none.
ReadExceptions ==
    /\ pc = "exceptions" /\ protected' = {}
    /\ lines' = lines \cup ToSet(exceptionsFile)
    /\ \/ /\ Parses(exceptionsFile)
          /\ filters' = [protected |-> protected, exceptions |-> Parsed(exceptionsFile)]
          /\ pc' = "fetch" /\ UNCHANGED result
       \/ ~Parses(exceptionsFile) /\ UNCHANGED filters /\ Ends("failed")
    /\ UNCHANGED <<files, answers, body, desired>>

\* "server": 5xx; "network": no answer, a timeout, or a 200 whose body is not a
\* feed; "limited": 429; "client": any other status.
Transient == {"server", "network"}
Final == {"limited", "client"}

FetchOK ==
    /\ pc = "fetch" /\ pc' = "filter"
    /\ answers' = Append(answers, "ok")
    /\ body' \in Bodies
    /\ UNCHANGED <<files, filters, protected, lines, desired, result>>

\* Mutants of GivesUp: rate limiting is retried like anything else; one attempt
\* too many is made.
GivesUpOnCount(a) == Len(answers) + 1 = MaxAttempts
GivesUpLate(a) == a \in Final \/ Len(answers) = MaxAttempts

GivesUp(a) == a \in Final \/ Len(answers) + 1 = MaxAttempts

FetchFails ==
    /\ pc = "fetch"
    /\ \E a \in Transient \cup Final :
         /\ answers' = Append(answers, a)
         /\ \/ GivesUp(a) /\ Ends("failed")
            \/ ~GivesUp(a) /\ UNCHANGED <<pc, result>>
    /\ UNCHANGED <<files, filters, protected, lines, body, desired>>

\* Mutant of Filter: a body that does not parse is downloaded again.
FilterRefetches ==
    /\ pc = "filter"
    /\ \/ ~Parses(body) /\ pc' = "fetch" /\ answers' = <<>> /\ UNCHANGED <<desired, result>>
       \/ Parses(body) /\ Ends("ok") /\ UNCHANGED <<answers, desired>>
    /\ UNCHANGED <<files, filters, protected, lines, body>>

\* ParseBlacklist, both filters, SortDedup and the minimum.
Filter ==
    /\ pc = "filter"
    /\ LET kept == FilterOverlaps(FilterOverlaps(Parsed(body), filters.protected), filters.exceptions)
       IN  \/ ~Parses(body) /\ Ends("failed") /\ UNCHANGED desired
           \/ Parses(body) /\ Cardinality(kept) < MinEntries /\ Ends("failed") /\ UNCHANGED desired
           \/ /\ Parses(body) /\ Cardinality(kept) >= MinEntries
              /\ desired' = kept /\ Ends("ok")
    /\ UNCHANGED <<files, filters, protected, lines, answers, body>>

\* A Git edit of the ConfigMap, which holds both files, reaches the mount.
Edit ==
    /\ edits < MaxEdits /\ edits' = edits + 1
    /\ protectedFile' \in EditedFiles /\ exceptionsFile' \in EditedFiles
    /\ UNCHANGED <<filters, protected, lines, pc, answers, body, desired, result>>

Work == ReadProtected \/ ReadExceptions \/ FetchOK \/ FetchFails \/ Filter

Next == Work \/ Edit

Spec == Init /\ [][Next]_vars

\* Every request has a timeout and every pause between attempts ends.
FairSpec == Spec /\ WF_vars(Work)

-----------------------------------------------------------------------------
(* Properties. *)

\* Every variable holds a value of its kind, and every stored prefix is
\* canonical: masked, and never a mapped address in disguise.
Canonical == {p \in AllPrefixes : canonicalPrefix(p) = p}
TypeOK ==
    /\ protectedFile \in ProtectedFiles \cup EditedFiles
    /\ exceptionsFile \in ExceptionsFiles \cup EditedFiles
    /\ edits \in 0 .. MaxEdits
    /\ filters.protected \subseteq Canonical /\ filters.exceptions \subseteq Canonical
    /\ protected \subseteq Canonical /\ lines \subseteq Lines
    /\ pc \in {"idle", "exceptions", "fetch", "filter"} /\ result \in {"none", "ok", "failed"}
    /\ answers \in SeqOf(Transient \cup Final \cup {"ok"}, MaxAttempts)
    /\ body \in Bodies \cup {<<>>} /\ desired \subseteq Canonical

\* The hosts a line names: a prefix inside the IPv4-mapped block, but not the
\* block itself, names IPv4 hosts.
Covered(p) == {a \in Addresses(p.family) : InPrefix(p, p.family, a)}
Hosts(p) == IF Is4In6(p) /\ p.bits > W6 - W4
              THEN {<<4, Unmap(a)>> : a \in Covered(p)}
              ELSE {<<p.family, a>> : a \in Covered(p)}

\* What an entry denies at most: a mapped address may be taken for the host it maps.
Denied(p) == Hosts(p) \cup {<<4, Unmap(h[2])>> : h \in {x \in Hosts(p) : x[1] = 6 /\ IsMapped(x[2])}}

\* "an exception must never be enforced even partially, and a protected
\* infrastructure range must never be included inside a wider reputation entry":
\* no host is denied that a built-in range names, or a line of either file when
\* this cycle read that file, however both are written and whatever is edited
\* between the reads or during the retries.  (A line that an edit moves from the
\* exceptions to the protected ranges between the two reads is in neither.)
NothingFilteredIsDenied ==
    result = "ok" => \A p \in desired, f \in lines \ {Malformed} : Denied(p) \cap Hosts(f) = {}

\* The filters drop nothing else: an entry of the feed that names no host of a
\* filter line is in the list (see the comment on the /96 block at canonicalPrefix).
NothingElseIsDropped ==
    result = "ok" =>
        \A p \in ToSet(body) :
            \/ Hosts(p) \subseteq UNION {Hosts(q) : q \in desired}
            \/ \E f \in lines \ {Malformed} : Hosts(p) \cap Hosts(f) # {}

\* "never retries rate limiting", and no other final answer either: whatever
\* comes before the last answer of a cycle is transient.
OnlyTransientIsRetried ==
    \A i \in 1 .. Len(answers) - 1 : answers[i] \in Transient

\* Every cycle comes to its end, with or without a list.
CycleEnds == pc # "idle" ~> pc = "idle"
=============================================================================
