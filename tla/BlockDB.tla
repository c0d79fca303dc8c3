------------------------------ MODULE BlockDB -------------------------------
(***************************************************************************)
(* BlockDB (src/db/BlockDB.cpp): headers, blocks and UTXOs in one Database,*)
(* each in a table of its own.  A block has the hash of its header, so the *)
(* two differ in their key by the table's prefix only, and two blocks with *)
(* the same header have the same key.                                      *)
(*                                                                         *)
(* AddUTXOs, RemoveUTXOs, RemoveAllUTXOs and RemoveOldBlocks are empty in  *)
(* the code, and ChainStore knows no height yet: they change nothing, and  *)
(* GetUTXOs and GetBlockByHeight never find anything.                      *)
(***************************************************************************)
EXTENDS Database, Functions

CONSTANTS Hashes,    \* the hashes of headers and blocks
          Bodies     \* the bodies of blocks

HEADER_TABLE == "H"
BLOCK_TABLE == "B"
UTXO_TABLE == "U"

Header(hash) == [type |-> "header", hash |-> hash]
Block(hash, body) == [type |-> "block", hash |-> hash, body |-> body]

Headers == {Header(hash) : hash \in Hashes}
Blocks(hash) == {Block(hash, body) : body \in Bodies}
AllBlocks == UNION {Blocks(hash) : hash \in Hashes}

\* Mutant of BuildKey: the prefix is left out.
BuildKeyBare(table, hash) == <<hash>>

\* DBTable::BuildKey: the prefix and the item's key.
BuildKey(table, hash) == <<table, hash>>

\* What the database is instantiated with.
BlockKeys == {BuildKey(table, hash) : table \in {HEADER_TABLE, BLOCK_TABLE, UTXO_TABLE}, hash \in Hashes}
BlockItems == Headers \cup AllBlocks

ASSUME BlockDBAssumption == BlockKeys \subseteq Keys /\ BlockItems \subseteq Values

ToHeaderEntry(header) == Op(BuildKey(HEADER_TABLE, header.hash), header)

ToBlockEntry(block) == Op(BuildKey(BLOCK_TABLE, block.hash), block)

-----------------------------------------------------------------------------
AddHeader(header) == Put(<<ToHeaderEntry(header)>>)

AddHeaders(headers) == Put([i \in DOMAIN headers |-> ToHeaderEntry(headers[i])])

AddBlock(block) == Put(<<ToBlockEntry(block)>>)

BlockNext ==
  \/ \E kind \in {"write", "batch"} : OnInitWrite(kind)
  \/ \E header \in Headers : AddHeader(header)
  \/ \E headers \in BoundedSeq(Headers, MaxOps) : AddHeaders(headers)
  \/ \E block \in AllBlocks : AddBlock(block)
  \/ Commit \/ Rollback \/ Destroy \/ Crash

BlockSpec == Init /\ [][BlockNext]_vars

-----------------------------------------------------------------------------
(* Lookups *)

GetHeaderByHash(hash) == Get(Headers, BuildKey(HEADER_TABLE, hash))

\* The headers that are found, in the order asked for.
GetHeadersByHash(hashes) ==
  LET found[n \in 0..Len(hashes)] ==
        IF n = 0 THEN <<>>
        ELSE LET header == GetHeaderByHash(hashes[n])
             IN  IF header = NoValue THEN found[n - 1] ELSE Append(found[n - 1], header)
  IN  found[Len(hashes)]

GetBlockByHash(hash) == Get(AllBlocks, BuildKey(BLOCK_TABLE, hash))

\* ChainStore::GetHashByHeight
GetHashByHeight(height) == NoValue

GetBlockByHeight(height) ==
  LET hash == GetHashByHeight(height)
  IN  IF hash = NoValue THEN NoValue ELSE GetBlockByHash(hash)

\* The commitments for which something is found.
GetUTXOs(commitments) == {c \in commitments : Get({}, BuildKey(UTXO_TABLE, c)) # NoValue}

-----------------------------------------------------------------------------
(* Properties *)

\* A lookup returns the header, or a block, with the hash it was asked for,
\* whatever else is stored under that hash, in the transaction or in the store;
\* a list of hashes brings only headers asked for, and nothing is taken for a
\* UTXO, or for the block of a height, that is not one.
LookupsReturnTheirOwn ==
  \A hash \in Hashes :
    /\ GetHeaderByHash(hash) \in {NoValue, Header(hash)}
    /\ GetBlockByHash(hash) \in {NoValue} \cup Blocks(hash)
    /\ \A other \in Hashes :
         Range(GetHeadersByHash(<<hash, other>>)) \subseteq {Header(hash), Header(other)}
    /\ GetUTXOs({hash}) = {}
    /\ GetBlockByHeight(0) = NoValue

=============================================================================
