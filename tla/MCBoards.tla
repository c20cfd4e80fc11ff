------------------------------- MODULE MCBoards -------------------------------
\* Boards for TLC: boards a and b of one process, with connectors of the types v
\* and w, and file contents that an operator may write.
EXTENDS Boards

On(type, address) == [type |-> type, address |-> address]
Entry(name, connector, parameters) ==
  [name |-> name, complete |-> TRUE, connector |-> connector, parameters |-> parameters]
Crate(name, connector, boardsOfCrate, modules) ==
  [name |-> name, connector |-> connector, boards |-> boardsOfCrate, modules |-> modules]
RackOf(name, crates) == [name |-> name, crates |-> crates]
OneRack(crates) == <<[name |-> "room", racks |-> <<RackOf("r1", crates)>>]>>
TwoRacks(first, second) ==
  <<[name |-> "room", racks |-> <<RackOf("r1", first), RackOf("r2", second)>>]>>

MCMine == {"a", "b"}
MCType == {"v", "w"}

\* Board a has a connector of its own in the crate of b, which uses the crate's; the
\* modules are in crates without connector.
Together(pa, pb) ==
  Crate("c1", On("w", 1), <<Entry("a", On("v", 1), pa), Entry("b", NoConnector, pb)>>, << >>)
Apart == Crate("c2", NoConnector, <<Entry("c", On("w", 2), 1)>>, <<Entry("m", NoConnector, 1)>>)
Modules == Crate("c3", NoConnector, << >>, <<Entry("n", NoConnector, 1)>>)

\* The first one, then: both use the crate's connector and b has other parameters; b is
\* erased, and there is a crate of modules before a's; the boards have changed places, and
\* with them their numbers, and a is in the second rack; a crate is there twice.
MCFile ==
  {TwoRacks(<<Together(1, 1)>>, <<Apart>>),
   OneRack(<<Crate("c1", On("w", 1), <<Entry("a", NoConnector, 1), Entry("b", NoConnector, 2)>>,
                   << >>)>>),
   OneRack(<<Modules, Crate("c1", On("w", 1),
                            <<Entry("a", On("v", 1), 1), Entry("c", NoConnector, 1)>>, << >>)>>),
   TwoRacks(<<Crate("c1", On("w", 1), <<Entry("b", On("w", 1), 1)>>, << >>)>>,
            <<Crate("c2", NoConnector, <<Entry("a", On("v", 1), 1)>>, << >>)>>),
   OneRack(<<Together(1, 1), Together(1, 1)>>)}

=============================================================================
