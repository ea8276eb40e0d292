---------------------------- MODULE ContentPieces ----------------------------
(***************************************************************************)
(* One piece of marketing (src/marketing): its text, edited and approved   *)
(* (api.py), published by a member or by the task of every 15 minutes      *)
(* (services.py), and its video, asked of Google, polled by the screens    *)
(* that wait for it and charged when it is delivered (media.py).  A patch  *)
(* writes back the whole row it loaded; the others write their columns.    *)
(***************************************************************************)
EXTENDS Naturals

CONSTANTS
    Hands,    \* requests and the task that publishes
    MaxTexts, MaxOps, MaxPosts, MaxPieceTrouble \* bounds: editions, videos asked, posts, processes lost

ASSUME PiecesAssumption == {MaxTexts, MaxOps, MaxPosts, MaxPieceTrouble} \subseteq Nat

VARIABLES
    piece,    \* ContentPiece: [status ("none": no row), text: its edition, video, op, file]
    hand,     \* a handler: [pc, row: the piece it loaded, got: the operation it asked for]
    editions,    \* editions of the text so far
    asked,    \* operations at Google: "running", "done" or "refused", in the order they were asked
    videos,    \* videos in the storage, by their operation
    posts,       \* times each edition was posted
    charges,  \* times each video was charged
    handsLost,   \* processes that died
    reviewed, \* history: editions somebody approved
    slipped,  \* history: editions that came to stand under a failed publication
    onShow,      \* history: the video delivered last, until another is asked
    delivered, \* history: videos delivered
    unseen,   \* history: videos whose piece was removed before they were charged
    spoiled   \* history: a patch or a failure was written over a newer state of the video

pieceVars == <<piece, hand, editions, asked, videos, posts, charges, handsLost, reviewed, slipped, onShow, delivered, unseen, spoiled>>

PieceDecisions == {"", "rascunho", "aprovado", "agendado", "publicado"}
PieceRow == [status : (PieceDecisions \ {""}) \cup {"none", "falhou"}, text : 0 .. MaxTexts,
             video : {"", "gerando", "pronto", "falhou"}, op : 0 .. MaxOps, file : 0 .. MaxOps]
PieceHand == [pc : {"idle", "patch", "publish", "posted", "refused", "ask", "taken", "poll", "fail", "store", "charge"},
              row : PieceRow, got : 0 .. MaxOps]
NewPiece == [status |-> "rascunho", text |-> 0, video |-> "", op |-> 0, file |-> 0]
NoPiece == [NewPiece EXCEPT !.status = "none"]
NoHand == [pc |-> "idle", row |-> NoPiece, got |-> 0]
VideoOps == 1 .. MaxOps

PieceInit ==
    /\ piece = NewPiece /\ hand = [h \in Hands |-> NoHand] /\ editions = 0 /\ asked = [n \in VideoOps |-> "none"]
    /\ videos = {} /\ posts = [t \in 0 .. MaxTexts |-> 0] /\ charges = [n \in VideoOps |-> 0] /\ handsLost = 0
    /\ reviewed = {} /\ slipped = {} /\ onShow = 0 /\ delivered = {} /\ unseen = {} /\ spoiled = FALSE

Handles(h, pc) == hand[h].pc = pc
Held(h) == hand[h].row
\* Of the row it loads a handler keeps here the columns it uses; a patch uses them all.
Columns(pc) ==
    CASE pc = "patch" -> piece
      [] pc = "publish" -> [NewPiece EXCEPT !.text = piece.text]
      [] pc = "poll" -> [NewPiece EXCEPT !.op = piece.op, !.file = piece.file]
      [] OTHER -> NewPiece
LoadsPiece(h, pc) == Handles(h, "idle") /\ piece.status # "none" /\ hand' = [hand EXCEPT ![h] = [NoHand EXCEPT !.pc = pc, !.row = Columns(pc)]]
Becomes(h, pc) == hand' = [hand EXCEPT ![h].pc = pc]
Drops(h) == hand' = [hand EXCEPT ![h] = NoHand]
\* save(update_fields): on a row that is gone it raises.
WritesPiece(new) == piece' = IF piece.status = "none" THEN piece ELSE new

textVars == <<editions, posts, reviewed, slipped>>
videoVars == <<asked, videos, charges, onShow, delivered, unseen, spoiled>>

-----------------------------------------------------------------------------
LoadPatch(h) == LoadsPiece(h, "patch") /\ UNCHANGED <<piece, handsLost, textVars, videoVars>>

\* A new text goes back to approval, if the piece was approved.
Restatus(status) == IF status \in {"aprovado", "agendado"} THEN "rascunho" ELSE status

\* The text, the decision, both, or only the image or the hour to post at; and the whole row is written
\* back, into a new row if need be.
SavePatch(h, edits, decision) ==
    LET row == Held(h)
        text == IF edits THEN editions + 1 ELSE row.text
        status == IF decision # "" THEN decision ELSE IF edits THEN Restatus(row.status) ELSE row.status IN
    /\ Handles(h, "patch")
    /\ edits => editions < MaxTexts /\ (row.status = "publicado" => decision = "publicado")
    /\ piece' = [row EXCEPT !.text = text, !.status = status]
    /\ editions' = IF edits THEN editions + 1 ELSE editions
    /\ reviewed' = IF decision \in {"aprovado", "agendado"} THEN reviewed \cup {text} ELSE reviewed
    /\ slipped' = IF edits /\ status = "falhou" THEN slipped \cup {text} ELSE slipped
    /\ spoiled' = (spoiled \/ <<row.video, row.op, row.file>> # <<piece.video, piece.op, piece.file>>)
    /\ Drops(h)
    /\ UNCHANGED <<asked, videos, posts, charges, handsLost, onShow, delivered, unseen>>

-----------------------------------------------------------------------------
\* PiecePublishView and publish_due.
Publishable(status) == status \in {"aprovado", "agendado", "falhou"}
LoadPublish(h) == Publishable(piece.status) /\ LoadsPiece(h, "publish") /\ UNCHANGED <<piece, handsLost, textVars, videoVars>>
LoadDue(h) == piece.status = "agendado" /\ LoadsPiece(h, "publish") /\ UNCHANGED <<piece, handsLost, textVars, videoVars>>

\* meta_publish, on the text that was loaded ...
PostToMeta(h) ==
    LET t == Held(h).text IN
    /\ Handles(h, "publish")
    /\ \/ /\ posts[t] < MaxPosts /\ posts' = [posts EXCEPT ![t] = posts[t] + 1]
          /\ Becomes(h, "posted")
       \/ Becomes(h, "refused") /\ UNCHANGED posts
    /\ UNCHANGED <<piece, editions, handsLost, reviewed, slipped, videoVars>>

\* ... and the status is written on whatever the row has become.
SavePublish(h) ==
    /\ \/ Handles(h, "posted") /\ WritesPiece([piece EXCEPT !.status = "publicado"]) /\ UNCHANGED slipped
       \/ /\ Handles(h, "refused") /\ WritesPiece([piece EXCEPT !.status = "falhou"])
          /\ slipped' = IF piece.text = Held(h).text THEN slipped ELSE slipped \cup {piece.text}
    /\ Drops(h)
    /\ UNCHANGED <<editions, posts, handsLost, reviewed, videoVars>>

-----------------------------------------------------------------------------
\* start_video
AskVideo(h) == piece.video # "gerando" /\ LoadsPiece(h, "ask") /\ UNCHANGED <<piece, handsLost, textVars, videoVars>>

GoogleTakes(h) ==
    /\ Handles(h, "ask")
    /\ \/ \E n \in VideoOps :
            /\ asked[n] = "none" /\ \A k \in 1 .. n - 1 : asked[k] # "none"
            /\ asked' = [asked EXCEPT ![n] = "running"]
            /\ hand' = [hand EXCEPT ![h].pc = "taken", ![h].got = n]
       \/ Drops(h) /\ UNCHANGED asked
    /\ UNCHANGED <<piece, handsLost, textVars, videos, charges, onShow, delivered, unseen, spoiled>>

SaveOp(h) ==
    /\ Handles(h, "taken")
    /\ WritesPiece([piece EXCEPT !.op = hand[h].got, !.video = "gerando"])
    /\ onShow' = 0
    /\ Drops(h)
    /\ UNCHANGED <<handsLost, textVars, asked, videos, charges, delivered, unseen, spoiled>>

GoogleEnds(n) ==
    /\ asked[n] = "running"
    /\ \E end \in {"done", "refused"} : asked' = [asked EXCEPT ![n] = end]
    /\ UNCHANGED <<piece, hand, handsLost, textVars, videos, charges, onShow, delivered, unseen, spoiled>>

\* poll_video
LoadPoll(h) == piece.video = "gerando" /\ LoadsPiece(h, "poll") /\ UNCHANGED <<piece, handsLost, textVars, videoVars>>

\* Not ready, or no answer; refused, or 20 minutes have passed; or downloaded.
PollAnswered(h) ==
    /\ Handles(h, "poll")
    /\ \/ Drops(h) \/ Becomes(h, "fail")
       \/ asked[Held(h).op] = "done" /\ Becomes(h, "store")
    /\ UNCHANGED <<piece, handsLost, textVars, videoVars>>

FailVideo(h) ==
    /\ Handles(h, "fail")
    /\ WritesPiece([piece EXCEPT !.video = "falhou", !.op = 0])
    /\ spoiled' = (spoiled \/ <<piece.video, piece.op>> # <<"gerando", Held(h).op>>)
    /\ Drops(h)
    /\ UNCHANGED <<handsLost, textVars, asked, videos, charges, onShow, delivered, unseen>>

\* Of two polls at once only the first writes and charges; mutant: the operation is not compared.
WinsLate(row) == piece.video # "" /\ row.op # 0
Wins(row) == piece.video = "gerando" /\ piece.op = row.op

StoreVideo(h) ==
    LET row == Held(h) IN
    /\ Handles(h, "store")
    /\ IF Wins(row)
       THEN /\ piece' = [piece EXCEPT !.video = "pronto", !.file = row.op, !.op = 0]
            /\ videos' = (videos \ {row.file}) \cup {row.op}
            /\ onShow' = row.op /\ delivered' = delivered \cup {row.op}
            /\ hand' = [hand EXCEPT ![h].pc = "charge", ![h].row.file = row.op]
       ELSE Drops(h) /\ UNCHANGED <<piece, videos, onShow, delivered>>
    /\ UNCHANGED <<handsLost, textVars, asked, charges, unseen, spoiled>>

\* It reads the row again, which raises if the piece is gone; the charge is asked whatever credits there are.
ChargeVideo(h) ==
    LET n == Held(h).file IN
    /\ Handles(h, "charge")
    /\ \/ charges[n] < 2 /\ charges' = [charges EXCEPT ![n] = charges[n] + 1] /\ UNCHANGED unseen \* bound
       \/ piece.status = "none" /\ UNCHANGED charges
          /\ unseen' = unseen \cup {n}
    /\ Drops(h)
    /\ UNCHANGED <<piece, handsLost, textVars, asked, videos, onShow, delivered, spoiled>>

-----------------------------------------------------------------------------
RemovePiece ==
    /\ piece.status # "none" /\ piece' = NoPiece /\ onShow' = 0
    /\ UNCHANGED <<hand, handsLost, textVars, asked, videos, charges, delivered, unseen, spoiled>>

HandDies(h) ==
    /\ ~Handles(h, "idle") /\ handsLost < MaxPieceTrouble /\ handsLost' = handsLost + 1
    /\ Drops(h)
    /\ UNCHANGED <<piece, textVars, videoVars>>

PieceNext ==
    \/ \E h \in Hands :
        \/ LoadPatch(h) \/ \E edits \in BOOLEAN, decision \in PieceDecisions : SavePatch(h, edits, decision)
        \/ LoadPublish(h) \/ LoadDue(h) \/ PostToMeta(h) \/ SavePublish(h)
        \/ AskVideo(h) \/ GoogleTakes(h) \/ SaveOp(h)
        \/ LoadPoll(h) \/ PollAnswered(h) \/ FailVideo(h) \/ StoreVideo(h) \/ ChargeVideo(h)
        \/ HandDies(h)
    \/ \E n \in VideoOps : GoogleEnds(n)
    \/ RemovePiece

\* Bound: the text is explored with no video asked for, and the video while the text rests.
TextOrVideo ==
    \/ asked = [n \in VideoOps |-> "none"]
    \/ /\ editions = 0 /\ reviewed = {} /\ posts[0] = 0
       /\ {piece.status} \cup {Held(h).status : h \in Hands} \subseteq {"rascunho", "none"}

PieceSpec == PieceInit /\ [][PieceNext]_pieceVars

-----------------------------------------------------------------------------
PieceTypeOK ==
    /\ piece \in PieceRow /\ hand \in [Hands -> PieceHand]
    /\ editions \in 0 .. MaxTexts /\ videos \subseteq VideoOps /\ asked \in [VideoOps -> {"none", "running", "done", "refused"}]
    /\ posts \in [0 .. MaxTexts -> 0 .. MaxPosts] /\ charges \in [VideoOps -> 0 .. 2] /\ handsLost \in 0 .. MaxPieceTrouble
    /\ reviewed \cup slipped \subseteq 0 .. MaxTexts /\ delivered \cup unseen \subseteq VideoOps
    /\ onShow \in 0 .. MaxOps /\ spoiled \in BOOLEAN

\* What is posted is a text somebody approved, through every overlap of edits, approvals and
\* publications; but a text that came to stand under a failed publication may be posted as it is:
\* an edit of a failed piece does not go back to approval (src/marketing/api.py:184).
PostedWasReviewed == \A t \in 0 .. MaxTexts : posts[t] > 0 => t \in reviewed \cup slipped

\* A video is charged when it is delivered, once, and unless a process died it is
\* (src/marketing/media.py:224); and until another is asked the piece shows it.  A patch or a failed poll
\* that read the piece before and is written after undoes that (media.py:181), and is excepted.
VideoPaidOnce ==
    /\ \A n \in VideoOps : charges[n] > 0 => n \in delivered
    /\ (\A h \in Hands : Handles(h, "idle")) /\ handsLost = 0 => \A n \in delivered \ unseen : charges[n] >= 1
    /\ ~spoiled =>
        /\ \A n \in VideoOps : charges[n] <= 1
        /\ onShow # 0 => piece.video = "pronto" /\ piece.file = onShow /\ onShow \in videos

\* Nothing goes out or is paid for but as the office decided: PostedWasReviewed and VideoPaidOnce.
PieceKept == PostedWasReviewed /\ VideoPaidOnce
=============================================================================
