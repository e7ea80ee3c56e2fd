----------------------- MODULE MCRequestAuthorization -----------------------
EXTENDS RequestAuthorization

Signing(path, query, content, resource, ahead) ==
    [path |-> path, query |-> query, content |-> content, resource |-> resource,
     ahead |-> ahead, key |-> "OSF_HMAC_KEY"]

\* a plain request, with OSF's clock ahead, in step and behind; one with all that
\* may be signed; one whose path is quoted; one about another resource; and one
\* that was signed with another key
MCSignings ==
    {Signing("plain", "", "", "resource", ahead) : ahead \in -1..1}
        \cup {Signing("plain", "query", "content", "resource", 0),
              Signing("quoted", "", "", "resource", 0),
              Signing("plain", "", "", "other", 0),
              [Signing("plain", "", "", "resource", 0) EXCEPT !.key = "another"]}
=============================================================================
