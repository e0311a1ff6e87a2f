---------------------------- MODULE MCAgentCore ----------------------------
\* The agent with two personas and two or four concurrent calls for TLC.
EXTENDS AgentCore, TLC

CONSTANTS A, B, c1, c2, c3, c4

MCPersonas == {A, B}
MCCalls2 == {c1, c2}
MCCalls4 == {c1, c2, c3, c4}
MCUtterances == {1, 2}

\* The documents at the start: stored ones, or some that cannot be read.
DocsStored == {[p \in MCPersonas |-> "ok"]}
DocsUnread == DocsStored \cup {(A :> "unsupported") @@ (B :> "none"), (A :> "none") @@ (B :> "unsupported")}
DocsInvalid == DocsStored \cup {(A :> "invalid") @@ (B :> "none"), (A :> "none") @@ (B :> "invalid")}

\* What the call slots of each run may do.
NoCalls == [c \in MCCalls4 |-> {}]
OfferSwitches == (c1 :> {"apply"}) @@ (c2 :> {"apply"}) @@ (c3 :> {"apply", "shutdown"}) @@ NoCalls
OfferSwitchInReply == (c1 :> {"send"}) @@ (c2 :> {"apply"}) @@ (c3 :> {"apply", "shutdown"}) @@ NoCalls
OfferVoice == (c1 :> {"voice"}) @@ (c2 :> {"take", "unvoice"})
                  @@ (c3 :> {"voice", "shutdown"}) @@ (c4 :> {"apply"})
OffersSwitches == {OfferSwitches, OfferSwitchInReply, OfferVoice}

OfferReplies == (c1 :> {"send"}) @@ (c2 :> {"send"})
                    @@ (c3 :> {"cancel", "suspend", "voice", "shutdown"}) @@ (c4 :> {"resume"})
OfferEdits == (c1 :> {"send"}) @@ (c2 :> Edits) @@ (c3 :> Edits) @@ NoCalls
OffersReplies == {OfferReplies, OfferEdits}

OffersSwitchAndDelete == {(c1 :> {"apply"}) @@ (c2 :> {"delete"})}
=============================================================================
