--------------------------- MODULE DocumentContent ---------------------------
(***************************************************************************)
(* Documents (document.py) and what is derived of them: inline references,   *)
(* the payload of content_hash, concat_documents and join_documents, and the *)
(* rendering of a document with its references resolved (rendering/).        *)
(*                                                                           *)
(* An element has an id, a kind, a body and the <ref> tags of its html, each *)
(* the id it names with its rel.  Three documents grow side by side.         *)
(* A rendering is a sequence of what is seen: an element's body, the bridge  *)
(* or title, a "[missing ref]" marker, a <ref> tag left in place.            *)
(***************************************************************************)
EXTENDS Naturals, Sequences, FiniteSets, SequencesExt, SequenceOps, Functions

CONSTANTS
  Forms,      \* [kind, body, refs]: refs a sequence of <<position, rel>>, see Add
  Names,      \* titles; "" stands for none
  MaxTotal    \* bound: elements over all documents

ASSUME ContentConstants ==
  /\ \A f \in Forms :
       /\ f.kind \in {"heading", "text", "image", "footnote"}
       /\ f.refs \in Seq(Nat \X {"footnote", "image", "odd"})
       /\ f.kind = "image" => f.refs = <<>>
  /\ "" \in Names
  /\ MaxTotal \in Nat

VARIABLE docs

Papers == 1 .. 3

Bare == [title |-> "", elements |-> <<>>, meta |-> <<>>]

(* Key 0 (the filename, say) every document has, key d only document d. *)
ContentInit ==
  \E t \in [Papers -> Names] :
    docs = [d \in Papers |-> [title |-> t[d], elements |-> <<>>, meta |-> [key \in {0, d} |-> d]]]

(* Ids are uuids: no two elements of any documents share one. *)
Uuid(d, n) == <<d, n>>

Lengths == FoldFunction(LAMBDA doc, n : Len(doc.elements) + n, 0, docs)

(* A parser appends an element; its refs name positions of the document, the *)
(* element's own and later ones included, or an id no element has.           *)
AddForm(d, f) ==
  /\ Lengths < MaxTotal
  /\ docs' = [docs EXCEPT ![d].elements =
       Append(@, [id |-> Uuid(d, Len(@) + 1), kind |-> f.kind, body |-> f.body,
                  refs |-> [r \in DOMAIN f.refs |->
                              [to |-> Uuid(d, f.refs[r][1]), rel |-> f.refs[r][2]]]])]

ContentNext == \E d \in Papers, f \in Forms : AddForm(d, f)

ContentSpec == ContentInit /\ [][ContentNext]_docs

-----------------------------------------------------------------------------
(* References. *)

Positions(doc) == DOMAIN doc.elements

(* inline_refs: refs with an unknown rel are skipped. *)
KnownRefs(e) == {r \in Range(e.refs) : r.rel # "odd"}

InlineIds(doc) ==
  {r.to : r \in UNION {KnownRefs(doc.elements[n]) : n \in Positions(doc)}}

IdsOf(doc) == {doc.elements[n].id : n \in Positions(doc)}

(* get_element *)
Named(doc, id) == doc.elements[CHOOSE n \in Positions(doc) :
  doc.elements[n].id = id /\ \A k \in 1 .. n - 1 : doc.elements[k].id # id]

OrphanedFootnotes(doc) ==
  LET referenced == {r.to : r \in {r \in UNION {Range(doc.elements[n].refs) : n \in Positions(doc)} :
                                     r.rel = "footnote"}}
  IN {n \in Positions(doc) : /\ doc.elements[n].kind = "footnote"
                             /\ doc.elements[n].id \notin referenced}

-----------------------------------------------------------------------------
(* content_hash: what is hashed. *)

(* ref_ordinals: of two elements with one id the later one counts; 0 stands *)
(* for an id no element has.                                                *)
OrdinalsFrom(doc, id) == {n \in Positions(doc) : doc.elements[n].id = id}

Ordinal(doc, id) ==
  IF OrdinalsFrom(doc, id) = {} THEN 0
  ELSE CHOOSE n \in OrdinalsFrom(doc, id) : \A k \in OrdinalsFrom(doc, id) : k <= n

(* Mutated: refs are hashed as they stand. *)
NormalizeNothing(doc, refs) == [k \in DOMAIN refs |-> <<refs[k].to, refs[k].rel>>]

NormalizeRefIds(doc, refs) == [k \in DOMAIN refs |-> <<Ordinal(doc, refs[k].to), refs[k].rel>>]

ElementPayload(doc, e) == <<e.kind, e.body, NormalizeRefIds(doc, e.refs)>>

(* Its elements' payloads in order. *)
ContentPayload(doc) ==
  [title |-> doc.title,
   elements |-> [n \in Positions(doc) |-> ElementPayload(doc, doc.elements[n])]]

-----------------------------------------------------------------------------
(* concat_documents, join_documents. *)

BridgeId == Uuid(0, 0)

Bridge(first, second) ==
  IF first.title # "" /\ second.title # ""
  THEN <<[id |-> BridgeId, kind |-> "heading", body |-> second.title, refs |-> <<>>]>> ELSE <<>>

(* The default metadata policy: the first document's values win.  The result *)
(* keeps no external_refs, source_id or source_hash.                         *)
Concat(first, second) ==
  [title |-> IF first.title # "" THEN first.title ELSE second.title,
   elements |-> first.elements \o Bridge(first, second) \o second.elements,
   meta |-> [key \in DOMAIN first.meta \cup DOMAIN second.meta |->
             IF key \in DOMAIN first.meta THEN first.meta[key] ELSE second.meta[key]]]

Join(ds) ==
  LET joined[n \in 1 .. Len(ds)] == IF n = 1 THEN ds[1] ELSE Concat(joined[n - 1], ds[n])
  IN  IF ds = <<>> THEN Bare ELSE joined[Len(ds)]

-----------------------------------------------------------------------------
(* Rendering (render_for_prompt): element renderers give html that may hold *)
(* refs; Renderer resolves those it finds, in one pass.                     *)

Sight(what, of) == [what |-> what, of |-> of]

Html(e) == <<Sight("body", e.id)>> \o [r \in DOMAIN e.refs |-> Sight("ref", e.refs[r].to)]

(* What inline=True gives: a footnote only its text, an image no refs. *)
Inline(e) ==
  IF e.kind \in {"footnote", "image"} THEN <<Sight("body", e.id)>> ELSE Html(e)

(* Only headings are shown where they stand although something refers to them. *)
Standalone(doc, e) ==
  IF e.kind # "heading" /\ e.id \in InlineIds(doc) THEN <<>>
  ELSE IF e.kind = "image" THEN Inline(e) ELSE Html(e)

InlineRendered(doc) == [id \in InlineIds(doc) \cap IdsOf(doc) |-> Inline(Named(doc, id))]

(* Tags that came with a replacement are not in find_all's list any more. *)
Substituted(inlines, id) ==
  IF id \in DOMAIN inlines
  THEN [k \in DOMAIN inlines[id] |->
         IF inlines[id][k].what = "ref" THEN [inlines[id][k] EXCEPT !.what = "tag"]
         ELSE inlines[id][k]]
  ELSE <<Sight("missing", id)>>

ResolveInlineRefs(html, inlines) ==
  FlattenSeq([k \in DOMAIN html |->
    IF html[k].what = "ref" THEN Substituted(inlines, html[k].of) ELSE <<html[k]>>])

RenderForPrompt(doc) ==
  LET header == IF doc.title = "" THEN <<>> ELSE <<Sight("title", BridgeId)>>
      parts == FlattenSeq([n \in Positions(doc) |-> Standalone(doc, doc.elements[n])])
  IN ResolveInlineRefs(header \o parts, InlineRendered(doc))

-----------------------------------------------------------------------------
(* Properties. *)

EqualContent(a, b) ==
  /\ a.title = b.title
  /\ Len(a.elements) = Len(b.elements)
  /\ \A n \in Positions(a) :
       LET e == a.elements[n]  f == b.elements[n]
       IN /\ e.kind = f.kind /\ e.body = f.body /\ Len(e.refs) = Len(f.refs)
          /\ \A k \in DOMAIN e.refs :
               /\ e.refs[k].rel = f.refs[k].rel
               /\ \A m \in Positions(a) :
                    e.refs[k].to = a.elements[m].id <=> f.refs[k].to = b.elements[m].id

(* Two parses give the same content_hash exactly when they agree in title,   *)
(* kinds, bodies and what refers to what: fresh ids never re-chunk a         *)
(* document, and a changed reference always does (document.py, content_hash; *)
(* SHA-256 and JSON are taken to be injective).                              *)
HashMeansContent ==
  \A a, b \in Papers : ContentPayload(docs[a]) = ContentPayload(docs[b]) <=> EqualContent(docs[a], docs[b])

Seen(doc, id) ==
  LET out == RenderForPrompt(doc)
  IN Cardinality({k \in DOMAIN out : out[k] = Sight("body", id)})

(* Elements whose only references come from elements that are themselves    *)
(* shown only in place of a reference: the one pass does not reach them.    *)
Nested(doc, e) ==
  /\ e.kind # "heading"
  /\ e.id \in InlineIds(doc)
  /\ \A n \in Positions(doc) :
       LET f == doc.elements[n]
       IN e.id \in {r.to : r \in Range(f.refs)} =>
            f.kind # "heading" /\ f.id \in InlineIds(doc)

(* The rendering shows every element, and one that nothing refers to just   *)
(* once; only nested ones are lost.                                         *)
EverythingShown ==
  \A d \in Papers : \A n \in Positions(docs[d]) :
    LET e == docs[d].elements[n]
    IN /\ Seen(docs[d], e.id) = 0 <=> Nested(docs[d], e)
       /\ e.id \notin InlineIds(docs[d]) => Seen(docs[d], e.id) = 1

(* A reference never shows an element both in its place and where it stands, *)
(* headings apart; and no footnote the document calls referenced is shown as *)
(* an orphan.                                                                *)
ShownInOnePlace ==
  \A d \in Papers : \A n \in Positions(docs[d]) :
    LET e == docs[d].elements[n]
        alone == Standalone(docs[d], e) # <<>>
    IN /\ e.kind # "heading" => (alone <=> e.id \notin InlineIds(docs[d]))
       /\ e.kind = "footnote" /\ alone => n \in OrphanedFootnotes(docs[d])

(* All that is seen but titles and bridges. *)
Real(out) ==
  Among(out, [what : {"body", "ref", "tag", "missing"}, of : (Nat \X Nat) \ {BridgeId}])

Bridges(doc) == Cardinality({n \in Positions(doc) : doc.elements[n].id = BridgeId})

TitledPapers == {d \in Papers : docs[d].title # ""}

(* Documents joined in any grouping keep every element in order, with what  *)
(* it referred to, and render as they did one after the other, with bridges *)
(* in between; the hash changes with nothing but the content of the parts.  *)
JoinedRendersAsParts ==
  \A joined \in {Join(<<docs[1], docs[2], docs[3]>>), Concat(docs[1], Concat(docs[2], docs[3]))} :
    /\ Real(RenderForPrompt(joined)) = FlattenSeq([d \in Papers |-> Real(RenderForPrompt(docs[d]))])
    /\ Bridges(joined) = (IF TitledPapers = {} THEN 0 ELSE Cardinality(TitledPapers) - 1)
    /\ joined.title = "" <=> TitledPapers = {}
    /\ joined.meta = [key \in {0} \cup Papers |-> IF key = 0 THEN 1 ELSE key]

(* Hash, rendering and concatenation agree on what a document contains. *)
ContentIsWhole ==
  HashMeansContent /\ EverythingShown /\ ShownInOnePlace /\ JoinedRendersAsParts
=============================================================================
