------------------------------ MODULE MCCoNode ------------------------------
(***************************************************************************)
(* A node whose firmware makes it a consumer of SYNC with a cyclic PDO; its   *)
(* owner may store parameters that make it the producer, with a PDO sent on   *)
(* request.  Two dictionaries; objects 20 and 40 are in one of them each.     *)
(***************************************************************************)
EXTENDS CoNode, TLC

CONSTANTS t1, a1, a2, torn, nocrc, none

MCSync(gen) == [valid |-> TRUE, gen |-> gen, period |-> 3, window |-> 1,
                maxCounter |-> 2, maxAux |-> 1]
MCPdo(type, map) == [t \in {t1} |-> [valid |-> TRUE, type |-> type, mask |-> {1},
                                     map |-> map]]

MCConsumer == [sync |-> MCSync(FALSE), tpdo |-> MCPdo(1, <<<<10, 1>>, <<30, 2>>>>)]
MCProducer == [sync |-> MCSync(TRUE),  tpdo |-> MCPdo(0, <<<<40, 3>>>>)]

MCValues == [comm |-> {MCConsumer, MCProducer}, app |-> {a1, a2}]
MCDefault == [comm |-> MCConsumer, app |-> a1]
MCTpdos == {t1}
MCDiffs == {1}
MCDictionaries == {<<<<10, 1>>, <<20, 2>>, <<30, 1>>>>}
MCPasts == {40}
MCFrames == {<<1, 1>>, <<2, 0>>}
MCTypes == {2}
MCMasks == {{0}}
=============================================================================
