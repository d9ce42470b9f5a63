-------------------------- MODULE HttpContentParser --------------------------
(***************************************************************************)
(* dbp::http_content_parser (http_content_parser.cpp): the parser of a    *)
(* request's body is chosen by the media type of its Content-Type header  *)
(* from a factory of registered parsers, and falls back to the generic    *)
(* parser when the factory throws.  A request is a message record of     *)
(* HttpHeaders with its content: hasContent is FALSE for a header whose   *)
(* content vector was never filled (get_content() is then NULL), and body *)
(* is the C string get_content() points at (the content is always         *)
(* NUL-terminated by the content mutators).  Element names and values are *)
(* byte sequences, as url::decode produces them.                          *)
(***************************************************************************)
EXTENDS Naturals, Sequences, SequencesExt, HttpHeaders, Url

\* The bytes of a string.
StrBytes(s) == [i \in 1..Len(s) |-> Ord(At(s, i))]

\* http_header::get_content_type: the Content-Type header (found under
\* ci_less), "text/plain" when there is none.
GetContentType(m) ==
    IF \E e \in m.hdrs : CiEquiv(e.key, "Content-Type")
    THEN GetHeader(m.hdrs, "Content-Type") ELSE "text/plain"

\* The names the impl constructor registers with the factory, and the
\* parser each creates.
Registered == [f \in {"multipart/form-data", "application/x-www-form-urlencoded"} |->
                  IF f = "multipart/form-data" THEN "form_data" ELSE "urlencoded"]

\* impl::create_parser: the Content-Type is split at its first ';' by the
\* pair form of tokenize and trimmed; factory::create looks ct up
\* exactly and throws for a name not registered, and the catch creates
\* the generic parser.
CreateParser(m) ==
    LET ct == Trim(SplitPair(GetContentType(m), FALSE, {";"}).left)
    IN IF ct \in DOMAIN Registered THEN Registered[ct] ELSE "generic"

\* http_generic_parser::parse: one element "content" holding the whole
\* content, none for a NULL or empty buffer.
GenericParse(m) ==
    IF m.hasContent /\ m.body # ""
    THEN <<[name |-> StrBytes("content"), value |-> StrBytes(m.body)]>> ELSE <<>>

\* One token of the body, split at its first '=' and url-decoded.
FormElementMut(tok) ==
    LET pr == SplitPair(tok, FALSE, {"="})
    IN [name |-> StrBytes(pr.left), value |-> Decode(StrBytes(pr.right))]
FormElement(tok) ==
    LET pr == SplitPair(tok, FALSE, {"="})
    IN [name |-> Decode(StrBytes(pr.left)), value |-> Decode(StrBytes(pr.right))]

\* http_urlencoded_parser::parse: the body is tokenized at '&' (trimmed
\* tokens) and each token becomes an element.
UrlencodedParse(m) ==
    IF m.hasContent
    THEN LET t == Tokenize(m.body, {"&"}) IN [i \in 1..Len(t) |-> FormElement(t[i])]
    ELSE <<>>

\* http_content_parser::parse: create the parser, then parse;
\* http_form_data_parser::parse returns no elements.
ContentParse(m) ==
    CASE CreateParser(m) = "urlencoded" -> UrlencodedParse(m)
      [] CreateParser(m) = "generic"    -> GenericParse(m)
      [] OTHER                          -> <<>>
=============================================================================
