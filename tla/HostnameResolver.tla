--------------------------- MODULE HostnameResolver ---------------------------
(***************************************************************************)
(* The names of the host: a resolver keeps the last short and full name    *)
(* that it found, falls back on them when a resolution fails, and notifies *)
(* observers of changes.  What the system and the DNS answer is external.  *)
(***************************************************************************)
EXTENDS Sequences

CONSTANTS
  ShortNames, FullNames,   \* answers of the system and of the DNS
  Localhost,               \* the names that isLocalhost knows
  NoName,                  \* "": an error, or nothing
  OverrideFull             \* override_hostname, or NoName

ASSUME HostnameAssumption ==
  /\ {Localhost, NoName} \cap (ShortNames \cup FullNames) = {} /\ Localhost # NoName
  /\ OverrideFull \in FullNames \cup {NoName}

VARIABLE resolver   \* lastShort, lastFull, and the channel (of one) of the observer

ResolverInit == resolver = [short |-> NoName, full |-> NoName, channel |-> <<>>]

ShortAnswers == ShortNames \cup {NoName}
FullAnswers == FullNames \cup {Localhost, NoName}

\* The full name of a query: the override; else the answer of the DNS; and as long as
\* no full name is known, the one of the kernel instead of none or of localhost.
QueriedFull(short, full, internal) ==
  LET answer == IF short = NoName THEN NoName ELSE full IN
  IF OverrideFull # NoName THEN OverrideFull
  ELSE IF resolver.full = NoName /\ answer \in {NoName, Localhost}
         THEN IF internal = Localhost THEN NoName ELSE internal
  ELSE answer

\* Mutant: a change of the full name alone is called one.
MutWhat(short, full) ==
  IF short # NoName /\ short # resolver.short THEN (IF full # NoName /\ full # resolver.full THEN "ShortAndFull" ELSE "Short")
  ELSE "Full"

\* The kind of a change.  It begins as Short, the zero of its type: a change of the
\* full name alone is ShortAndFull as well.
What(short, full) == IF full # NoName /\ full # resolver.full THEN "ShortAndFull" ELSE "Short"

\* updateAndGet: names that are new replace the old ones; an observer whose channel
\* is full is not notified.
Update(short, full) ==
  LET newShort == short # NoName /\ short # resolver.short
      newFull == full # NoName /\ full # resolver.full
  IN  resolver' = [short |-> IF newShort THEN short ELSE resolver.short,
                   full |-> IF newFull THEN full ELSE resolver.full,
                   channel |-> IF (newShort \/ newFull) /\ resolver.channel = <<>>
                                 THEN <<What(short, full)>> ELSE resolver.channel]

Query(short, full, internal) == Update(short, QueriedFull(short, full, internal))

=============================================================================
