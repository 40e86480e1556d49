--------------------------- MODULE MCOnionClient ---------------------------
(***************************************************************************)
(* OnionClient for TLC: two nodes, and command lines of up to four         *)
(* arguments made of one option, the keys of both nodes, a value given as  *)
(* text and one given as a file.                                           *)
(***************************************************************************)
EXTENDS OnionClient

CONSTANTS n1, n2

MCRelays == {n1, n2}

\* --aes-gcm, the key of either node in lower case and that of the second
\* in upper case as well, "plain" and "@file".
MCWords ==
    {[kind |-> "option", name |-> "--aes-gcm"]}
    \cup {[kind |-> "hex", node |-> n, upper |-> FALSE, digits |-> 64] : n \in MCRelays}
    \cup {[kind |-> "hex", node |-> n2, upper |-> TRUE, digits |-> 64]}
    \cup {[kind |-> "text", is |-> t] : t \in {"plain", "@file"}}

\* What main() can make of them: nothing, the text typed, or the file.
Contents == {"", "text", "file"}

\* Nothing typed is no JSON; the text typed is '{"headers":[]}' and the
\* file holds '{"host": ..., "target": "/beldex/lsrpc"}'.
MCControlOf ==
    [c \in Contents |->
        IF c = "" THEN NotJson
        ELSE IF c = "text" THEN [headers |-> <<>>]
        ELSE [host |-> "host", target |-> "/beldex/lsrpc"]]

MCControls == Range(MCControlOf)

\* The file is the payload that no longer fits its size field behind two
\* nodes.
MCPayloads == {Body(text) : text \in Contents}

MCPayloadLength ==
    [p \in MCPayloads |-> IF p.body = "" THEN 0 ELSE IF p.body = "text" THEN 1 ELSE 6]

=============================================================================
