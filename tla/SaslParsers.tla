---------------------------- MODULE SaslParsers ----------------------------
(***************************************************************************)
(* Who the client says it is: ParsePlain (auth/sasl_plain.go) and          *)
(* ParseSCRAMClientFirstUsername with its helpers (auth/sasl_scram.go),    *)
(* against what the formats say.  The user name they return selects the    *)
(* tenant.                                                                 *)
(*                                                                         *)
(* A payload is a sequence of characters, one string each; NUL is "0".     *)
(* The behaviours spell out every payload of a form up to its length.      *)
(***************************************************************************)
EXTENDS Integers, Sequences, FiniteSetsExt

\* What is spelled out: [kind, start, chars, max].  kind says what the text is:
\* a "PLAIN" or "SCRAM" payload, or the name of a "user".
CONSTANT Form

ASSUME FormAssumption ==
    \A f \in Form :
        /\ f.start \in Seq(STRING) /\ f.chars \subseteq STRING
        \* RFC 4616: a name has no NUL.
        /\ f.kind = "user" => "0" \notin Range(f.start) \cup f.chars

VARIABLES form, text

parserVars == <<form, text>>

ParserInit == form \in Form /\ text = form.start

Spell ==
    /\ Len(text) < Len(form.start) + form.max
    /\ \E c \in form.chars : text' = Append(text, c)
    /\ UNCHANGED form

Finished == Len(text) = Len(form.start) + form.max /\ UNCHANGED parserVars

ParserNext == Spell \/ Finished

ParserSpec == ParserInit /\ [][ParserNext]_parserVars

-----------------------------------------------------------------------------
(* The parsers.                                                            *)

Malformed == [ok |-> FALSE, user |-> << >>]
User(u) == [ok |-> TRUE, user |-> u]

Positions(s, c) == {i \in DOMAIN s : s[i] = c}
From(s, i) == SubSeq(s, i, Len(s))
\* strings.HasPrefix
StartsWith(s, prefix) == Len(prefix) <= Len(s) /\ SubSeq(s, 1, Len(prefix)) = prefix
\* The two characters behind position i, if they are there.
escape(s, i) == IF i + 2 > Len(s) THEN << >> ELSE SubSeq(s, i + 1, i + 2)

\* A plausible slip: the password begins at the last NUL.
ParsePlainFromLast(payload) ==
    LET nuls == Positions(payload, "0")
    IN  IF Cardinality(nuls) < 2 THEN Malformed
        ELSE User(SubSeq(payload, Min(nuls) + 1, Max(nuls) - 1))

\* authzid NUL authcid NUL passwd; the password may contain anything.
ParsePlain(payload) ==
    LET nuls == Positions(payload, "0")
        first == Min(nuls)
        second == Min(nuls \ {first})
    IN  IF Cardinality(nuls) < 2 THEN Malformed
        ELSE User(SubSeq(payload, first + 1, second - 1))

\* Splits s at the first c.
cutByte(s, c) ==
    LET i == Min(Positions(s, c))
    IN  IF Positions(s, c) = {} THEN [before |-> s, after |-> << >>, found |-> FALSE]
        ELSE [before |-> SubSeq(s, 1, i - 1), after |-> From(s, i + 1), found |-> TRUE]

\* A plausible slip: the escapes are checked and left in the name.
decodeNothing(raw) ==
    IF /\ Positions(raw, ",") = {}
       /\ \A i \in Positions(raw, "=") : escape(raw, i) \in {<<"2", "C">>, <<"3", "D">>}
    THEN User(raw) ELSE Malformed

\* The loop of decodeSASLname, from its index i on.
decodeSASLname(raw) ==
    LET rest[i \in 1 .. Len(raw) + 1] ==
            IF i = Len(raw) + 1 THEN User(<< >>)
            ELSE LET esc == escape(raw, i)
                     step == CASE raw[i] = "," -> Malformed
                               [] raw[i] = "=" /\ esc = <<"2", "C">> -> User(<<",">>)
                               [] raw[i] = "=" /\ esc = <<"3", "D">> -> User(<<"=">>)
                               [] raw[i] \notin {",", "="} -> User(<<raw[i]>>)
                               [] OTHER -> Malformed
                     next == rest[IF raw[i] = "=" THEN i + 3 ELSE i + 1]
                 IN  IF ~step.ok THEN Malformed
                     ELSE IF ~next.ok THEN Malformed ELSE User(step.user \o next.user)
    IN  rest[1]

\* client-first-message-bare after the optional reserved-mext.
parseBare(bare) ==
    LET name == cutByte(From(bare, 3), ",")
    IN  IF ~StartsWith(bare, <<"n", "=">>) \/ ~name.found \/ name.before = << >> THEN Malformed
        ELSE decodeSASLname(name.before)

\* A plausible slip: the authzid is taken to be empty.
parseWithoutAuthzid(payload) ==
    LET flag == cutByte(payload, ",")
    IN  IF ~flag.found \/ flag.before # <<"n">> THEN Malformed
        ELSE parseBare(From(flag.after, 2))

ParseSCRAMClientFirstUsername(payload) ==
    LET flag == cutByte(payload, ",")
        authzid == cutByte(flag.after, ",")
        mext == cutByte(authzid.after, ",")
    IN  IF ~flag.found \/ flag.before # <<"n">> \/ ~authzid.found THEN Malformed
        ELSE IF ~StartsWith(authzid.after, <<"m", "=">>) THEN parseBare(authzid.after)
        ELSE IF mext.found THEN parseBare(mext.after) ELSE Malformed

-----------------------------------------------------------------------------
(* What the formats say.                                                   *)

\* RFC 5802, section 5.1, as a client escapes a name.
EscapeChar(c) ==
    CASE c = "," -> <<"=", "2", "C">>
      [] c = "=" -> <<"=", "3", "D">>
      [] OTHER -> <<c>>
Escape(name) ==
    LET upto[i \in 0 .. Len(name)] ==
            IF i = 0 THEN << >> ELSE upto[i - 1] \o EscapeChar(name[i])
    IN  upto[Len(name)]

WellEscaped(raw) ==
    /\ Positions(raw, ",") = {}
    /\ \A i \in Positions(raw, "=") : escape(raw, i) \in {<<"2", "C">>, <<"3", "D">>}

\* The text between the commas, field k; the ends of the text count as commas.
Comma(s, k) ==
    LET cs == Positions(s, ",") \cup {0, Len(s) + 1}
    IN  CHOOSE i \in cs : Cardinality({j \in cs : j < i}) = k
Field(s, k) == SubSeq(s, Comma(s, k - 1) + 1, Comma(s, k) - 1)
Fields(s) == Cardinality(Positions(s, ",")) + 1

\* The field of the user name: the third, or the fourth behind an "m=".
NameField(s) == IF StartsWith(Field(s, 3), <<"m", "=">>) THEN 4 ELSE 3

\* A client-first-message up to its nonce: an "n" flag, any authzid, an optional
\* mext and a well-escaped name that is followed by a comma.
UpToNonce(s) ==
    /\ Fields(s) > 3 /\ Fields(s) > NameField(s)
    /\ Field(s, 1) = <<"n">>
    /\ StartsWith(Field(s, NameField(s)), <<"n", "=">>)
    /\ Len(Field(s, NameField(s))) > 2
    /\ WellEscaped(From(Field(s, NameField(s)), 3))

\* All of it, as the comment on ParseSCRAMClientFirstUsername has it: the name is
\* followed by "r=" c-nonce.
ClientFirst(s) ==
    /\ UpToNonce(s)
    /\ StartsWith(Field(s, NameField(s) + 1), <<"r", "=">>)
    /\ Len(Field(s, NameField(s) + 1)) > 2

\* The client-first-message and the PLAIN payload of a user.
ClientFirstOf(authzid, user) ==
    <<"n", ",">> \o authzid \o <<",", "n", "=">> \o Escape(user) \o <<",", "r", "=", "x">>
PlainOf(authzid, user, password) == authzid \o <<"0">> \o user \o <<"0">> \o password

-----------------------------------------------------------------------------
(* Properties.                                                             *)

\* "The grammar we accept": the messages that ParseSCRAMClientFirstUsername
\* accepts are those of the grammar in its comment.  They are not: it stops at
\* the comma behind the name, and a message without a nonce passes.
ScramFollowsGrammar ==
    form.kind = "SCRAM" => (ParseSCRAMClientFirstUsername(text).ok <=> ClientFirst(text))

\* What it accepts are the messages that follow the grammar up to the nonce, so
\* every message of the grammar among them, and it returns the name that a
\* client would have written that way.
ScramReadsTheName ==
    form.kind = "SCRAM" =>
        LET p == ParseSCRAMClientFirstUsername(text)
        IN  /\ p.ok <=> UpToNonce(text)
            /\ p.ok => <<"n", "=">> \o Escape(p.user) = Field(text, NameField(text))

\* ParsePlain accepts exactly what contains two NULs, and the user it returns
\* ends at the second of them, whatever the password contains.
PlainFollowsGrammar ==
    form.kind = "PLAIN" =>
        LET p == ParsePlain(text)
        IN  IF p.ok
            THEN /\ "0" \notin Range(p.user)
                 /\ \E i, j \in 0 .. Len(text) :
                        /\ text = PlainOf(SubSeq(text, 1, i), p.user, From(text, j + 1))
                        /\ "0" \notin Range(SubSeq(text, 1, i))
            ELSE Cardinality(Positions(text, "0")) < 2

\* One user is one tenant: the same name, sent by a PLAIN client and by a SCRAM
\* client, with whatever authzid and password, selects the same record.
SameUserOnBothMechanisms ==
    form.kind = "user" /\ text # << >> =>
        \A authzid \in {<< >>, <<"x">>} :
            /\ ParseSCRAMClientFirstUsername(ClientFirstOf(authzid, text)) = User(text)
            /\ \A password \in {<< >>, <<"x">>, <<"0", "x">>} :
                   ParsePlain(PlainOf(authzid, text, password)) = User(text)
=============================================================================
