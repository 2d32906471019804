---------------------------- MODULE ParserRegistry ----------------------------
(***************************************************************************)
(* The parser registry (parsing/registry.py), load (parsing/__init__.py),      *)
(* MultiSourceParser (parsing/multi_source.py) and IngestPipeline.run          *)
(* (pipeline/linear.py): which parser reads a file, and what the document      *)
(* says about where it came from.                                              *)
(*                                                                             *)
(* A parser is [name, patterns, priority, second]: second is the name of the   *)
(* secondary of a MultiSourceParser, "" for any other.  A pattern is a suffix, *)
(* known by the files that end with it and by its length.                      *)
(***************************************************************************)
EXTENDS Integers, Sequences, FiniteSets, SequencesExt

CONSTANTS
  Parsers,         \* the parsers a program registers
  Patterns,        \* [suffix -> [files, length]]
  SourceFiles,
  Configs,         \* [preferences, available]: configurations of a program
  Keeping,         \* names of parsers that set their document's provenance
  MaxRegistered,   \* bound: registrations
  MaxLoads         \* bound: files loaded

ASSUME RegistryConstants ==
  /\ \A p \in Parsers : /\ p.patterns \subseteq DOMAIN Patterns /\ IsFiniteSet(p.patterns)
                       /\ p.name # "" /\ p.priority \in Int
  /\ \A p, q \in Parsers : p.name = q.name => p = q
  /\ \A s \in DOMAIN Patterns : Patterns[s].files \subseteq SourceFiles /\ Patterns[s].length \in Nat
  /\ "" \notin SourceFiles
  /\ {MaxRegistered, MaxLoads} \subseteq Nat

VARIABLES
  registry,      \* sequence of [pattern, parser]
  preferences,   \* parser_preferences: suffix -> name, at most one for a file
  available,     \* parsers whose extras and credentials are there
  loads          \* what load and IngestPipeline.run returned or raised

registryVars == <<registry, preferences, available, loads>>

RegistryInit ==
  /\ registry = <<>>
  /\ \E c \in Configs : preferences = c.preferences /\ available = c.available
  /\ loads = <<>>

-----------------------------------------------------------------------------
(* Registering *)

Registered(regs, parser) ==
  regs \o SetToSeq({[pattern |-> s, parser |-> parser] : s \in parser.patterns})

Matching(regs, suffix, name) ==
  {n \in DOMAIN regs : regs[n].pattern = suffix /\ regs[n].parser.name = name}

(* unregister_parser pops the first match; with none it raises. *)
Unregistered(regs, suffix, name) ==
  RemoveAt(regs, CHOOSE n \in Matching(regs, suffix, name) :
                   \A k \in Matching(regs, suffix, name) : n <= k)

(* Suffix after suffix. *)
Undone(regs, suffixes, name) ==
  LET undo[n \in 0 .. Len(suffixes)] ==
        IF n = 0 THEN regs ELSE Unregistered(undo[n - 1], suffixes[n], name)
  IN undo

Register(p) ==
  /\ Len(registry) + Cardinality(p.patterns) <= MaxRegistered
  /\ registry' = Registered(registry, p)
  /\ UNCHANGED <<preferences, available, loads>>

Unregister(s, name) ==
  /\ Matching(registry, s, name) # {}
  /\ registry' = Unregistered(registry, s, name)
  /\ UNCHANGED <<preferences, available, loads>>

-----------------------------------------------------------------------------
(* Resolving *)

FirstOf(indices) == CHOOSE n \in indices : \A k \in indices : n <= k

RegisteredAs(name) == {n \in DOMAIN registry : registry[n].parser.name = name}

Fits(suffix, file) == file \in Patterns[suffix].files

(* The order of the sort: longer suffix, then higher priority; the sort is  *)
(* stable, so then the earlier registration.                                *)
SortsBefore(n, k) ==
  LET a == registry[n]
      b == registry[k]
  IN \/ Patterns[a.pattern].length > Patterns[b.pattern].length
     \/ /\ Patterns[a.pattern].length = Patterns[b.pattern].length
        /\ \/ a.parser.priority > b.parser.priority
           \/ a.parser.priority = b.parser.priority /\ n <= k

Matches(file) == {n \in DOMAIN registry : Fits(registry[n].pattern, file)}

(* A MultiSourceParser inherits is_available: it always says it can run. *)
Usable(file) ==
  {n \in Matches(file) : \/ registry[n].parser.name \in available
                         \/ registry[n].parser.second # ""}

PreferredFor(file) == {s \in DOMAIN preferences : Fits(s, file)}

(* _resolve_parser: the index of a registration, 0 when it raises.  A name  *)
(* that was asked for or preferred is not asked whether it is available.    *)
ResolvedParser(file, asked) ==
  LET byName(name) == IF RegisteredAs(name) = {} THEN 0 ELSE FirstOf(RegisteredAs(name))
  IN IF asked # "" THEN byName(asked)
     ELSE IF PreferredFor(file) # {}
       THEN byName(preferences[CHOOSE s \in PreferredFor(file) : TRUE])
     ELSE IF Usable(file) = {} THEN 0
     ELSE CHOOSE n \in Usable(file) : \A k \in Usable(file) : SortsBefore(n, k)

-----------------------------------------------------------------------------
(* Loading *)

(* What a parser itself leaves in document.parser, source_path: "" unset. *)
ParsedBy(p, file) ==
  IF p.name \in Keeping
  THEN [parser |-> "original", path |-> "original", files |-> {file}]
  ELSE [parser |-> "", path |-> "", files |-> {file}]

Filled(value, default) == IF value = "" THEN default ELSE value

(* Mutated: the later stamp wins. *)
StampedOver(doc, file, name) == [doc EXCEPT !.parser = name, !.path = file]

(* stamp_provenance fills what the parser left unset. *)
Stamped(doc, file, name) ==
  [doc EXCEPT !.parser = Filled(@, name), !.path = Filled(@, file)]

(* MultiSourceParser reads the sibling too, and returns the primary alone   *)
(* when the resolver finds none; both are called without load, unstamped.   *)
Called(p, file, sibling) ==
  IF p.second # "" /\ sibling # "" THEN [ParsedBy(p, file) EXCEPT !.files = @ \union {sibling}]
                                   ELSE ParsedBy(p, file)

(* load, and IngestPipeline.run over it, which stamps the name "load" again. *)
LoadFile(file, asked) ==
  /\ Len(loads) < MaxLoads
  /\ LET n == ResolvedParser(file, asked)
         p == registry[n].parser
     IN IF n = 0 \/ ~ (p.name \in available)
        THEN loads' = Append(loads, [done |-> FALSE, by |-> IF n = 0 THEN "" ELSE p.name,
                                     asked |-> asked # "" \/ PreferredFor(file) # {},
                                     file |-> file, doc |-> ParsedBy([name |-> ""], file)])
        ELSE \E sibling \in {""} \union (SourceFiles \ {file}) :
               loads' = Append(loads,
                 [done |-> TRUE, by |-> p.name, asked |-> asked # "" \/ PreferredFor(file) # {},
                  file |-> file,
                  doc |-> Stamped(Stamped(Called(p, file, sibling), file, p.name), file, "load")])
  /\ UNCHANGED <<registry, preferences, available>>

ParserNames == {p.name : p \in Parsers}

RegistryNext ==
  \/ \E p \in Parsers : Register(p)
  \/ \E s \in DOMAIN Patterns, name \in ParserNames : Unregister(s, name)
  \/ \E file \in SourceFiles, asked \in ParserNames \union {""} : LoadFile(file, asked)

-----------------------------------------------------------------------------
(* Properties *)

(* A file with a matching parser that can run is read by one, and by none of *)
(* shorter suffix or lower priority, when nobody named one (the sort and the *)
(* availability test of _resolve_parser are done in that order).             *)
BestUsableReads ==
  [][\A file \in SourceFiles :
       LET able == {n \in Matches(file) : registry[n].parser.name \in available}
           multi == {n \in Matches(file) : registry[n].parser.second # ""}
       IN LoadFile(file, "") /\ PreferredFor(file) = {} /\ able # {} /\ multi = {} =>
            LET got == loads'[Len(loads')]
            IN /\ got.done
               /\ \E n \in able : registry[n].parser.name = got.by
                                  /\ \A k \in able : SortsBefore(n, k)]_registryVars

(* A document says who parsed it and from which file, through both stamps and *)
(* any registration of the parser; a restored document keeps what it said     *)
(* (stamp_provenance in load and again in IngestPipeline.run).                *)
ProvenanceKept ==
  \A n \in DOMAIN loads : loads[n].done =>
    IF loads[n].by \in Keeping
    THEN loads[n].doc.parser = "original" /\ loads[n].doc.path = "original"
    ELSE loads[n].doc.parser = loads[n].by /\ loads[n].doc.path = loads[n].file

(* Unregistering the suffixes of a parser undoes its registration, and leaves *)
(* every other parser where it was (unregister_parser pops the first entry of *)
(* that suffix and that name).                                                *)
UnregisterUndoes ==
  \A p \in Parsers : RegisteredAs(p.name) = {} =>
    Undone(Registered(registry, p), SetToSeq(p.patterns), p.name)[Cardinality(p.patterns)]
      = registry

(* Who reads a file is decided by the registrations that are there, whatever *)
(* others came and went before, and between two equally good ones by which   *)
(* of them came first; and it is what the document says of itself.           *)
RegistryDecides == [](ProvenanceKept /\ UnregisterUndoes) /\ BestUsableReads

RegistrySpec == RegistryInit /\ [][RegistryNext]_registryVars
=============================================================================
