--------------------------- MODULE SoundDirection ---------------------------
(***************************************************************************)
(* A sound request from the artist's note to the model: direction draft,   *)
(* the request file, validate_audio_spec, the compiler of the direction    *)
(* card and the Stable Audio adapter.  Notes are opaque; Unfit is a text   *)
(* of a forbidden length, and `fit` is false when a word is not in the     *)
(* vocabulary, or a field that is not followed here is unknown or outside  *)
(* its limits.  Frequencies are in hundredths of a hertz, a normalised     *)
(* card keeps tenths.                                                      *)
(***************************************************************************)
EXTENDS Absent, Naturals, SequencesExt

CONSTANTS
    Notes,          \* what an artist may write
    Unfit,          \* a text of no or of more than 2000 characters
    Refused,        \* what the compiler says to a request it does not accept
    Vocabulary,     \* the words of the fields of a card
    Directions,     \* cards an artist may write
    Hints           \* sets of known words a note may contain

VARIABLES
    spec,           \* the request file: None until one is written
    drafted,        \* whether it is as `direction draft --out` wrote it
    heard,          \* what the last generation handed to the model
    manifest        \* direction-manifest.json beside the sound

soundVars == <<spec, drafted, heard, manifest>>

Texts == {None, Unfit} \cup Notes
FitText(t) == t \in Notes

\* What the draft and the compiler say is in the vocabulary.  A card is a record of the
\* fields that are followed here; neither a text nor the answer to a refused request
\* can be taken for what a card compiles to.
ASSUME SoundAssumption ==
    LET Card(Lists) ==
            [fit: BOOLEAN, category: Vocabulary, action: Vocabulary, tail: Vocabulary,
             loopable: BOOLEAN, must_not: Lists, frequency: {None} \cup (Nat \X Nat)]
        Prompts == Card(SUBSET Vocabulary)
    IN  /\ {"weapon", "movement", "whoosh", "hit", "short", "medium", "breath", "clipping",
            "music", "speech", "vocals", "sustained_drone", "airflow", "blowing",
            "sustained_wind", "fade_in", "looping_artifacts", "background_noise"}
              \subseteq Vocabulary
        /\ Directions \subseteq Card(Seq(Vocabulary))
        /\ "bad" \notin Notes
        /\ None \notin Card(Seq(Vocabulary))
        /\ \A t \in Texts : t \notin Prompts
        /\ Refused \notin [prompt: Prompts \cup Texts, must_not: SUBSET Vocabulary,
                            note: Texts \cup {"bad"}, noteUsed: BOOLEAN]

\* A digest is the text it was made from; "bad" is no digest at all.
FitHash(h, note) == h # "bad" /\ (note # None => h = note)

FitDirection(d) ==
    /\ d.fit
    /\ Len(d.must_not) <= 8
    /\ d.frequency # None => d.frequency[1] # d.frequency[2]

Tenths(x) == (x + 5) \div 10
NormalCard(d) ==
    [d EXCEPT !.must_not = ToSet(@),
              !.frequency = IF @ = None THEN None ELSE <<Tenths(@[1]), Tenths(@[2])>>]

\* The words of the note decide a card for review; what is not known is guessed.
DraftCard(hints) ==
    [fit |-> TRUE,
     category |-> IF "blade" \in hints THEN "weapon" ELSE "movement",
     action |-> IF "swish" \in hints THEN "whoosh" ELSE IF "impact" \in hints THEN "hit"
                ELSE "whoosh",
     tail |-> IF "swish" \in hints THEN "short" ELSE "medium",
     loopable |-> FALSE,
     must_not |-> IF "breath" \in hints THEN <<"breath">> ELSE <<>>,
     frequency |-> IF "swish" \in hints THEN <<1000000, 300000>> ELSE None]

SourceOf(r) == IF r.source_text # None THEN r.source_text ELSE r.prompt

TextProvenance(r) ==
    /\ r.source_text # None => FitText(r.source_text)
    /\ r.prompt # None => FitText(r.prompt)
    /\ r.source_text_hash # None => FitHash(r.source_text_hash, r.source_text)

\* The two texts agree, and the digest is the digest of either.
Provenance(r) ==
    /\ r.source_text # None => FitText(r.source_text)
    /\ r.prompt # None => FitText(r.prompt)
    /\ r.source_text # None /\ r.prompt # None => r.source_text = r.prompt
    /\ r.source_text_hash # None => FitHash(r.source_text_hash, SourceOf(r))

FitV2(r) == r.direction # None /\ FitDirection(r.direction) /\ Provenance(r)

ValidAudioSpec(r) ==
    /\ r.fit
    /\ IF r.version = 2 THEN FitV2(r)
       ELSE /\ r.direction = None /\ r.source_text = None /\ r.source_text_hash = None
            /\ FitText(r.prompt)

CompileMustNot(card) ==
    {"clipping", "music", "speech", "vocals"} \cup card.must_not
        \cup (IF card.tail \in {"none", "short"} /\ ~card.loopable
              THEN {"sustained_drone"} ELSE {})
        \cup (IF card.action = "whoosh"
              THEN {"airflow", "blowing", "breath", "sustained_wind"} ELSE {})
        \cup (IF card.loopable THEN {"fade_in", "looping_artifacts"} ELSE {})
        \cup (IF card.category # "ambience" THEN {"background_noise"} ELSE {})

\* The prompt is the words of the card; the note is only kept as its digest.
CompileDirection(d, note) ==
    [prompt |-> NormalCard(d), must_not |-> CompileMustNot(NormalCard(d)),
     note |-> note, noteUsed |-> FALSE]

RefusedDirection(r) ==
    \/ ~FitDirection(r.direction)
    \/ SourceOf(r) # None /\ ~FitText(SourceOf(r))
    \/ r.source_text_hash # None /\ ~FitHash(r.source_text_hash, SourceOf(r))

CompileSfxRequest(r) ==
    IF r.direction # None
    THEN IF RefusedDirection(r) THEN Refused
         ELSE CompileDirection(r.direction,
                IF r.source_text_hash # None THEN r.source_text_hash ELSE SourceOf(r))
    ELSE IF ~FitText(SourceOf(r)) THEN Refused
    ELSE [prompt |-> SourceOf(r), must_not |-> {}, note |-> SourceOf(r), noteUsed |-> TRUE]

SoundInit == spec = None /\ drafted = FALSE /\ heard = None /\ manifest = None

Write(r) == spec' = r /\ heard' = None /\ UNCHANGED manifest

\* An existing output is not overwritten.
DraftSpec(note, hints) ==
    /\ spec = None
    /\ Write([version |-> 2, fit |-> TRUE, source_text |-> note, prompt |-> None,
              source_text_hash |-> note, direction |-> DraftCard(hints)])
    /\ drafted' = TRUE

WriteSpec ==
    /\ spec = None
    /\ \E v \in {1, 2}, f \in BOOLEAN, t \in Texts, d \in {None} \cup Directions :
         Write([version |-> v, fit |-> f, source_text |-> None, prompt |-> t,
                source_text_hash |-> None, direction |-> d])
    /\ drafted' = FALSE

\* The artist goes on writing; a digest that was there stays as it is.
EditSpec ==
    /\ spec # None
    /\ \/ \E t \in Texts : Write([spec EXCEPT !.source_text = t])
       \/ \E t \in Texts : Write([spec EXCEPT !.prompt = t])
       \/ \E h \in {None, "bad"} \cup Notes : Write([spec EXCEPT !.source_text_hash = h])
       \/ \E d \in {None} \cup Directions : Write([spec EXCEPT !.direction = d])
    /\ drafted' = FALSE

\* The adapter: the request is validated and compiled before the model is loaded.
GenerateSound ==
    /\ spec # None
    /\ ValidAudioSpec(spec)
    /\ heard' = CompileSfxRequest(spec)
    /\ manifest' = IF spec.direction # None THEN heard' ELSE manifest
    /\ UNCHANGED <<spec, drafted>>

SoundNext ==
    \/ \E n \in Notes, h \in Hints : DraftSpec(n, h)
    \/ WriteSpec \/ EditSpec \/ GenerateSound

\* The validator and the compiler agree: what a draft wrote is accepted, and what
\* is accepted compiles.  With a card, whatever texts and digests were left in the
\* request by its edits, the model hears the card and never the note, the manifest
\* is of this sound and names the note the request holds, and a one-shot whoosh
\* excludes the airflow it must not sound like.
AcceptedCompiles ==
    /\ drafted => ValidAudioSpec(spec)
    /\ heard # None =>
         /\ heard # Refused
         /\ spec.version = 2 =>
              /\ ~heard.noteUsed /\ heard.prompt \notin Texts
              /\ manifest = heard
              /\ SourceOf(spec) # None => heard.note = SourceOf(spec)
              /\ spec.direction.action = "whoosh" => "breath" \in heard.must_not
=============================================================================
