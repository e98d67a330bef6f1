------------------------------- MODULE Corpus -------------------------------
(***************************************************************************)
(* RagService of src/library as units of work: indexing, reindexing and    *)
(* deleting documents, withdrawing a title with everything filed under it, *)
(* and the retrieval of passages.  Embedding is a call between two         *)
(* statements that may raise; the similarity of a passage is any.          *)
(***************************************************************************)
EXTENDS Lending, Chunker

CONSTANTS CardText,     (* the catalogue card of the title, as Chunker reads it *)
          BodyTexts,    (* the other texts that are indexed                     *)
          TopK          (* config.retrieve_top_k                                *)

PiecesOf == [text \in BodyTexts \cup {CardText} |-> Split(text)]
InkOf == [text \in BodyTexts \cup {CardText} |-> Inked(text)]

MyDoc(q) == <<"doc", q>>
MyChunk(q, i) == <<"chunk", q, i>>
DocOf(q) == job[q].doc
ChunksOf(db, d) == {k \in Table(db, "chunk") : db[k].doc = d}

WithDoc(u, q, source, text) ==
  Add(u, MyDoc(q), [source |-> source, text |-> text, status |-> "pending", chunks |-> 0])

(* index_text.                                                                *)
IndexText(q) ==
  /\ Asks(q, "index_text")
  /\ Statement(q, "start", Book \in DOMAIN Rows(q),
               WithDoc(Found(q, {Book}), q, "upload", job[q].text), "file")

(* index_book: the old cards of the title go, one listing of chunks each.     *)
IndexBook(q) ==
  /\ Asks(q, "index_book")
  /\ Statement(q, "start", Book \in DOMAIN Rows(q), Found(q, {Book}), "cards")
IndexCards(q) ==
  LET old == {k \in Table(Rows(q), "doc") : Rows(q)[k].source = "catalog"}
  IN StatementNoting(q, "cards", TRUE,
       LET listed == Found(q, Table(Rows(q), "doc"))
       IN IF old = {} THEN WithDoc(listed, q, "catalog", CardText) ELSE listed,
       IF old = {} THEN "file" ELSE "clear", old)
IndexClear(q) ==
  \E d \in note[q] :
    LET u == Delete(Found(q, ChunksOf(Rows(q), d)), ChunksOf(Rows(q), d) \cup {d})
    IN StatementNoting(q, "clear", TRUE,
         IF note[q] = {d} THEN WithDoc(u, q, "catalog", CardText) ELSE u,
         IF note[q] = {d} THEN "file" ELSE "clear", note[q] \ {d})

(* _embed_into: a text without passages fails; else they are embedded, stored,
   and the document says so.  docs.add comes first where the document is new. *)
Target(q) == IF job[q].op = "reindex" THEN DocOf(q) ELSE MyDoc(q)
Pieces(u, q) == PiecesOf[u.obj[Target(q)].text]
Described(u, q, status, n) ==
  Touch(Assign(u, Target(q), [status |-> status, chunks |-> n]), Target(q))
EmbedInto(u, q) == IF Pieces(u, q) = <<>> THEN Described(u, q, "failed", 0) ELSE u
AfterSplit(u, q) == IF Pieces(u, q) = <<>> THEN "commit" ELSE "embed"

FileDoc(q) == Statement(q, "file", TRUE, EmbedInto(Sent(q), q), AfterSplit(Sent(q), q))
WithChunks_AllButTheLast(u, q) ==
  [u EXCEPT !.obj = Upon([k \in {MyChunk(q, i) : i \in 1..(Len(Pieces(u, q)) - 1)} |->
                            [doc |-> Target(q), piece |-> Pieces(u, q)[k[3]]]], @)]
WithChunks(u, q) ==
  [u EXCEPT !.obj = Upon([k \in {MyChunk(q, i) : i \in DOMAIN Pieces(u, q)} |->
                            [doc |-> Target(q), piece |-> Pieces(u, q)[k[3]]]], @)]
Embed(q) ==
  /\ pc[q] = "embed"
  /\ unit' = [unit EXCEPT ![q] = WithChunks(@, q)]
  /\ pc' = [pc EXCEPT ![q] = "store"]
  /\ UNCHANGED <<durable, working, job, note, met>>
StoreChunks(q) ==
  Statement(q, "store", TRUE,
            Described(Sent(q), q, "indexed", Len(Pieces(Sent(q), q))), "commit")

(* reindex and delete_doc.                                                    *)
RequireDoc(q) ==
  /\ job[q].op \in {"reindex", "delete_doc"}
  /\ Statement(q, "start", DocOf(q) \in DOMAIN Rows(q), Found(q, {DocOf(q)}), "listed")
WithoutChunks_LeavesThem(q) == Found(q, ChunksOf(Rows(q), DocOf(q)))
WithoutChunks(q) == Delete(Found(q, ChunksOf(Rows(q), DocOf(q))), ChunksOf(Rows(q), DocOf(q)))
Reindex(q) ==
  /\ Asks(q, "reindex")
  /\ Statement(q, "listed", TRUE, EmbedInto(WithoutChunks(q), q),
               AfterSplit(WithoutChunks(q), q))
DeleteDoc(q) ==
  /\ Asks(q, "delete_doc")
  /\ Statement(q, "listed", TRUE, Delete(WithoutChunks(q), {DocOf(q)}), "commit")

-----------------------------------------------------------------------------
(* delete_book: refused while a copy is out; then documents with their chunks,
   the chunks left, reservations, loans, copies and the title.                *)
DeleteBook(q) ==
  Statement(q, "start", Book \in DOMAIN Rows(q), Found(q, {Book}), "out")
DeleteOut(q) == Statement(q, "out", WithStatus(Rows(q), "on_loan") = {}, Sent(q), "docs")
DeleteDocs(q) ==
  LET docs == Table(Rows(q), "doc")
  IN StatementNoting(q, "docs", TRUE, Found(q, docs),
                     IF docs = {} THEN "chunks" ELSE "doc_chunks", docs)
DeleteDocChunks(q) ==
  \E d \in note[q] :
    StatementNoting(q, "doc_chunks", TRUE,
      Delete(Found(q, ChunksOf(Rows(q), d)), ChunksOf(Rows(q), d) \cup {d}),
      IF note[q] = {d} THEN "chunks" ELSE "doc_chunks", note[q] \ {d})
DeleteTable(q, at, table, more, next) ==
  Statement(q, at, TRUE,
    Delete(Found(q, Table(Rows(q), table)), Table(Rows(q), table) \cup more), next)
Withdraw(q) ==
  /\ Asks(q, "delete_book")
  /\ \/ DeleteBook(q) \/ DeleteOut(q) \/ DeleteDocs(q) \/ DeleteDocChunks(q)
     \/ DeleteTable(q, "chunks", "chunk", {}, "holds")
     \/ DeleteTable(q, "holds", "hold", {}, "loans")
     \/ DeleteTable(q, "loans", "loan", {}, "copies")
     \/ DeleteTable(q, "copies", "copy", {Book}, "commit")

Index(q) ==
  \/ IndexText(q) \/ IndexBook(q) \/ IndexCards(q) \/ IndexClear(q)
  \/ FileDoc(q) \/ Embed(q) \/ Raise(q, "embed") \/ StoreChunks(q)
  \/ RequireDoc(q) \/ Reindex(q) \/ DeleteDoc(q) \/ Withdraw(q)

-----------------------------------------------------------------------------
(* retrieve: at most TopK passages, those above the noise floor; their
   documents are read by another statement and may be gone by then.           *)
Hits(q, at, next) ==
  \E hits \in {s \in SUBSET Table(Rows(q), "chunk") : Cardinality(s) <= TopK} :
    StatementNoting(q, at, TRUE, Found(q, hits),
                    IF hits = {} THEN next ELSE "titles", hits)
HitTitles(q, next) ==
  Statement(q, "titles", TRUE,
            Found(q, {unit[q].obj[k].doc : k \in note[q]} \cap DOMAIN Rows(q)), next)

=============================================================================
