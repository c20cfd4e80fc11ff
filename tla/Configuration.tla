---------------------------- MODULE Configuration ----------------------------
(***************************************************************************)
(* The configuration file and what ConfigurationLoader makes of it         *)
(* (src/ConfigurationLoader.cpp).  A file is a sequence of rooms of racks  *)
(* of crates; a crate may have a connector and holds boards and modules,   *)
(* each with its name, its parameters and, for a board, maybe a connector  *)
(* of its own.  An entry is complete when it has the keys Name, Slot (for  *)
(* a board) and Type.  No level of the file is empty but the last one: a   *)
(* crate without boards or modules has no such key.                        *)
(***************************************************************************)
EXTENDS Naturals, Sequences, SequencesExt

NoConnector == [type |-> "none", address |-> 0]

\* The first n of a sequence of sequences, one behind the other, for each n.
Joins(seqs) ==
  LET upTo[n \in 0..Len(seqs)] == IF n = 0 THEN << >> ELSE upTo[n - 1] \o seqs[n]
  IN  upTo

Joined(seqs) == Joins(seqs)[Len(seqs)]

Racks(file) == Joined([r \in DOMAIN file |-> file[r].racks])
Crates(file) == Joined([k \in DOMAIN Racks(file) |-> Racks(file)[k].crates])

\* throwIfExists, for the rooms, the racks and the crates of the whole file.
Unique(tables) == \A i, j \in DOMAIN tables : tables[i].name = tables[j].name => i = j

-----------------------------------------------------------------------------
(* parse *)

\* infos is m_BoardsInfos and links m_ConnectorInfos; the last two are
\* m_ConnectorID and m_CrateConnectorID.
Nothing == [failed |-> FALSE, infos |-> << >>, links |-> << >>, id |-> 1, crateId |-> 0]

\* std::map::emplace: what is there already stays.
Emplaced(table, name, value) ==
  [n \in DOMAIN table \cup {name} |-> IF n \in DOMAIN table THEN table[n] ELSE value]

\* What parseBoards and parseModules have in common: the entry is refused, or
\* known from now on.
Known(at, entry, class) ==
  IF ~entry.complete \/ entry.name \in DOMAIN at.infos
  THEN [at EXCEPT !.failed = TRUE]
  ELSE [at EXCEPT !.infos = Emplaced(@, entry.name,
                                     [class |-> class, parameters |-> entry.parameters])]

ParseBoardWithoutNumber(at, board, crateConnector) ==   \* slip: no number of its own
  LET own == board.connector # NoConnector
      used == IF own THEN board.connector ELSE crateConnector
  IN  [Known(at, board, "Board") EXCEPT
         !.failed = @ \/ used = NoConnector,
         !.links = Emplaced(@, board.name, [connector |-> used, id |-> at.crateId])]

\* One turn of the loop of parseBoards: a board has its own connector, with a
\* number of its own, or the crate's.
ParseBoard(at, board, crateConnector) ==
  LET own == board.connector # NoConnector
      used == IF own THEN board.connector ELSE crateConnector
      id == IF own THEN at.id + 1 ELSE at.id
  IN  [Known(at, board, "Board") EXCEPT
         !.failed = @ \/ used = NoConnector,
         !.id = id,
         !.links = Emplaced(@, board.name, [connector |-> used,
                                            id |-> IF own THEN id ELSE at.crateId])]

\* The loop of parseBoards: after each of its turns.
ParseBoards(at, boards, crateConnector) ==
  LET after[n \in 0..Len(boards)] ==
        IF n = 0 THEN at ELSE ParseBoard(after[n - 1], boards[n], crateConnector)
  IN  after

ParseModules(at, modules) ==
  LET after[n \in 0..Len(modules)] ==
        IF n = 0 THEN at ELSE Known(after[n - 1], modules[n], "Module")
  IN  after

\* A crate's modules are looked at only when it has no connector or no boards:
\* parseModules is called where a missing key has been caught.
ParseCrate(at, crate) ==
  LET shared == crate.connector # NoConnector
      begun == IF shared THEN [at EXCEPT !.id = @ + 1, !.crateId = at.id + 1] ELSE at
      boards == ParseBoards(begun, crate.boards, crate.connector)[Len(crate.boards)]
  IN  IF shared /\ crate.boards # << >>
      THEN boards
      ELSE ParseModules(boards, crate.modules)[Len(crate.modules)]

ParseCrates(crates) ==
  LET after[n \in 0..Len(crates)] ==
        IF n = 0 THEN Nothing ELSE ParseCrate(after[n - 1], crates[n])
  IN  after

\* parse: what is in m_BoardsInfos and m_ConnectorInfos afterwards, unless
\* something has been refused.
Parse(file) ==
  IF Unique(file) /\ Unique(Racks(file)) /\ Unique(Crates(file))
  THEN ParseCrates(Crates(file))[Len(Crates(file))]
  ELSE [Nothing EXCEPT !.failed = TRUE]

-----------------------------------------------------------------------------
(* reloadParameters and reloadConnectorParameters, on a file that may have   *)
(* been edited since.                                                         *)

Entries(crate, class) == IF class = "Board" THEN crate.boards ELSE crate.modules

Named(entries, name) == {i \in DOMAIN entries : entries[i].name = name}

\* The search goes through the crates of the first rack and ends with an error
\* before the second; a crate without a single entry of the class ends it too,
\* with std::out_of_range.
Reload(file, name, class) ==
  LET crates == file[1].racks[1].crates
      ends == {i \in DOMAIN crates : \/ Entries(crates[i], class) = << >>
                                     \/ Named(Entries(crates[i], class), name) # {}}
  IN  IF ends = {} THEN [found |-> FALSE]
      ELSE LET entries == Entries(crates[CHOOSE i \in ends : \A j \in ends : i <= j], class)
           IN  IF entries = << >> THEN [found |-> FALSE]
               ELSE [found |-> TRUE,
                     parameters |-> entries[CHOOSE i \in Named(entries, name) :
                                              \A j \in Named(entries, name) : i <= j].parameters]

\* What the search for a board's connector does in one crate.  What it finds goes
\* to m_BoardsInfos, where nobody reads it; only its failures are seen.
ConnectorIn(crate, name) ==
  LET own(i) == crate.boards[i].connector # NoConnector
      decisive == {i \in Named(crate.boards, name) : own(i) \/ crate.connector = NoConnector}
  IN  IF crate.boards = << >> THEN "missing"
      ELSE IF decisive = {} THEN "next"
      ELSE IF own(CHOOSE i \in decisive : \A j \in decisive : i <= j) THEN "found" ELSE "missing"

ReloadConnectorFails(file, name) ==
  \E i \in DOMAIN Crates(file) :
    /\ ConnectorIn(Crates(file)[i], name) = "missing"
    /\ \A j \in 1..i - 1 : ConnectorIn(Crates(file)[j], name) = "next"

-----------------------------------------------------------------------------
(* What a file says, written without the loader's walk. *)

BoardOf(crate, board) ==
  [name |-> board.name, crate |-> crate.name, own |-> board.connector # NoConnector,
   connector |-> IF board.connector # NoConnector THEN board.connector ELSE crate.connector]

BoardsOf(file) ==
  UNION {{BoardOf(c, b) : b \in ToSet(c.boards)} : c \in ToSet(Crates(file))}

EntriesOf(file, class) == UNION {ToSet(Entries(c, class)) : c \in ToSet(Crates(file))}

SharesConnector(b, d) == b = d \/ (~b.own /\ ~d.own /\ b.crate = d.crate)

=============================================================================
