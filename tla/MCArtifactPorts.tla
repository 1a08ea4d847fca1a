--------------------------- MODULE MCArtifactPorts ---------------------------
(***************************************************************************)
(* Small instances of ArtifactPorts for TLC.  For the index: five records  *)
(* of every shape a path meets, one for each of a set of timestamps, and   *)
(* the queries at each limit.  For the records: one faultless Capsule with *)
(* every artifact an inventory of one may have, pairs from a shorter list, *)
(* and Capsules, padding records and envelopes with one fault each.        *)
(***************************************************************************)
EXTENDS ArtifactPorts


MCPathKeys == 1 :> <<"agent">> @@ 2 :> <<"effect", "kind">>
              @@ 3 :> <<"a", "b", "c">> @@ 4 :> <<"site">>

At(year, month, day, hour, minute, second, fraction, zone, oh, om) ==
    [year |-> year, month |-> month, day |-> day, hour |-> hour, minute |-> minute,
     second |-> second, fraction |-> fraction, zone |-> zone, oh |-> oh, om |-> om]
MCStampFields ==
    "epoch" :> At(1970, 1, 1, 0, 0, 0, <<>>, "Z", 0, 0)
    @@ "before" :> At(1969, 12, 31, 23, 59, 59, <<9, 9, 9, 9, 9, 9, 9>>, "Z", 0, 0)
    @@ "leap" :> At(2024, 2, 29, 23, 30, 0, <<>>, "-", 1, 0)
    @@ "leap next" :> At(2024, 3, 1, 0, 30, 0, <<0>>, "Z", 0, 0)
    @@ "tenth" :> At(2024, 3, 1, 0, 30, 0, <<5>>, "Z", 0, 0)
    @@ "nine" :> At(2024, 3, 1, 0, 30, 0, <<0, 0, 0, 0, 0, 5, 9, 9, 9>>, "+", 0, 0)
    @@ "no leap" :> At(2023, 2, 29, 0, 0, 0, <<>>, "Z", 0, 0)
    @@ "1900" :> At(1900, 2, 28, 23, 0, 0, <<>>, "-", 5, 30)
    @@ "1900 next" :> At(1900, 3, 1, 4, 30, 0, <<>>, "Z", 0, 0)
    @@ "1900 leap" :> At(1900, 2, 29, 0, 0, 0, <<>>, "Z", 0, 0)
    @@ "2000" :> At(2000, 2, 29, 12, 0, 0, <<>>, "Z", 0, 0)
    @@ "2000 end" :> At(2000, 12, 31, 23, 59, 59, <<1, 2>>, "+", 23, 59)
    @@ "year 0" :> At(0, 1, 1, 0, 30, 0, <<>>, "+", 1, 0)
    @@ "year 0 leap" :> At(0, 2, 29, 0, 0, 0, <<>>, "Z", 0, 0)
    @@ "last" :> At(9999, 12, 31, 23, 59, 59, <<>>, "-", 23, 59)
    @@ "month 0" :> At(2024, 0, 1, 0, 0, 0, <<>>, "Z", 0, 0)
    @@ "month 13" :> At(2024, 13, 1, 0, 0, 0, <<>>, "Z", 0, 0)
    @@ "day 0" :> At(2024, 4, 0, 0, 0, 0, <<>>, "Z", 0, 0)
    @@ "day 31" :> At(2024, 4, 31, 0, 0, 0, <<>>, "Z", 0, 0)
    @@ "hour 24" :> At(2024, 4, 1, 24, 0, 0, <<>>, "Z", 0, 0)
    @@ "leap second" :> At(2016, 12, 31, 23, 59, 60, <<>>, "Z", 0, 0)
    @@ "offset" :> At(2024, 4, 1, 0, 0, 0, <<>>, "+", 24, 0)

S(x) == [is |-> "string", of |-> x]
O(x) == [is |-> "object", of |-> x]
L(x) == [is |-> "list", of |-> x]
Stamped == DOMAIN MCStampFields \cup {"now"}
MCDocs ==
    "d1" :> O([agent |-> S("a"), effect |-> O([kind |-> S("x")]), timestamp |-> S("leap")])
    @@ "d2" :> O([agent |-> L(<<S("a"), NoValue, S("b"), S("a")>>),
               effect |-> O([kind |-> L(<<S("y"), S("x")>>)]),
               timestamp |-> S("epoch")])
    @@ "d3" :> O([agent |-> S("b"), effect |-> S("x"), timestamp |-> NoValue])
    @@ "d4" :> O([agent |-> S("a"), site |-> S("x"), timestamp |-> S("tenth")])
    @@ "d5" :> O([agent |-> O([kind |-> S("a")]), effect |-> O([kind |-> S("x")])])
    @@ [t \in Stamped |-> O([agent |-> S("a"), timestamp |-> S(t)])]
MCAlone == Stamped

MCDeclarations ==
    {<<1, 2>>, <<2, 1>>, <<1>>, <<1, 1>>, <<0>>, <<1, 3>>, <<1, 2, 4>>, <<>>}

None == [given |-> FALSE, plain |-> TRUE, n |-> 0]
Cursors == {None} \cup [given : {TRUE}, plain : {TRUE}, n : {0, 1, 2, MaxInt64, MaxInt64 + 1}]
           \cup [given : {TRUE}, plain : {FALSE}, n : {1}]
Wheres == {<<>>, 1 :> "a", 1 :> "b", 2 :> "x", 1 :> "a" @@ 2 :> "x", 1 :> "c",
           1 :> "not a string", 4 :> "x"}
MCQueries ==
    [where : Wheres, since : {""}, after : {None}, limit : {NotGiven, 0, 1, 3, 4}]
    \cup [where : {<<>>, 1 :> "a", 1 :> "a" @@ 2 :> "x"}, since : {""}, after : Cursors,
          limit : {1, 2}]
    \cup [where : {<<>>, 2 :> "x"}, since : Stamped, after : {None}, limit : {1}]
MCWalkQueries ==
    [where : {<<>>, 1 :> "a" @@ 2 :> "x"}, since : {""}, after : {None}, limit : {1}]
    \cup [where : {1 :> "a"}, since : {"", "epoch"}, after : {None}, limit : {2}]

-----------------------------------------------------------------------------

Absent == "absent"
NotJson == "not JSON"

MCContents == {"", "{1}", "{ 1 }", "{2}", "{{3}}", "text"}
MCDeep == {"{{3}}"}
MCSha == ("" :> "sha of none") @@ ("{1}" :> "sha of 1")
         @@ ("{ 1 }" :> "sha of spaced 1") @@ ("{2}" :> "sha of 2")
         @@ ("{{3}}" :> "sha of 3")
         @@ ("text" :> "sha of text")
MCJsonDigest == ("" :> NotJson) @@ ("{1}" :> "digest of 1")
                @@ ("{ 1 }" :> "digest of 1") @@ ("{2}" :> "digest of 2")
                @@ ("{{3}}" :> "digest of 3")
                @@ ("text" :> NotJson)
MCSize == ("" :> 0) @@ ("{1}" :> 1) @@ ("{ 1 }" :> 2) @@ ("{2}" :> 1)
          @@ ("{{3}}" :> 2)
          @@ ("text" :> 3)
MCHex == {"id", "other id", "nonce", "digest of 1", "digest of 2", "digest of 3",
          "sha of none", "sha of 1", "sha of spaced 1", "sha of 2", "sha of 3", "sha of text"}

Capsule == [json |-> "object", type |-> "capsule", profile |-> TRUE,
            class1 |-> TRUE, computes |-> "id", size |-> 1,
            digests |-> ("agent_input_digest" :> "digest of 1")
                        @@ ("agent_output_digest" :> "digest of 3")
                        @@ ("effect.request_digest" :> "malformed"),
            members |-> {}, epistemic |-> "", nonce |-> "", says |-> ""]
Padding == [Capsule EXCEPT
            !.type = "padding", !.profile = FALSE, !.class1 = FALSE,
            !.digests = <<>>, !.epistemic = "producer_claim",
            !.nonce = "nonce", !.says = "id",
            !.members = {"capsule_id", "record_type", "epistemic_type",
                         "store_nonce"}]
Capsules == {Capsule, Padding,
             [Capsule EXCEPT !.json = "broken"], [Capsule EXCEPT !.json = "deep"],
             [Capsule EXCEPT !.json = "list"],
             [Padding EXCEPT !.json = "list"],
             [Capsule EXCEPT !.profile = FALSE], [Capsule EXCEPT !.class1 = FALSE],
             [Capsule EXCEPT !.computes = "other id"],
             [Padding EXCEPT !.members = @ \cup {"format_version"}],
             [Padding EXCEPT !.epistemic = "observed"],
             [Padding EXCEPT !.nonce = "malformed"],
             [Padding EXCEPT !.computes = "other id"],
             [Padding EXCEPT !.says = "other id"]}

Envelope == [ok |-> TRUE, key |-> "key", size |-> 1]
Envelopes == {Envelope, [Envelope EXCEPT !.ok = FALSE],
              [Envelope EXCEPT !.key = "stranger"], [Envelope EXCEPT !.size = 2],
              [Envelope EXCEPT !.size = 3]}

Artifact == [name |-> 1, binding |-> "agent_input_digest", content |-> "{1}",
             state |-> "present", sum |-> ""]
Note == [name |-> 2, binding |-> "", content |-> "text", state |-> "present",
         sum |-> ""]
Nested == [name |-> 1, binding |-> "agent_output_digest", content |-> "{{3}}",
           state |-> "present", sum |-> ""]
Missing == [name |-> 2, binding |-> "", content |-> Absent,
            state |-> "never_retained", sum |-> ""]

RecordOf(id, c, e, as) == [id |-> id, capsule |-> c, envelope |-> e, artifacts |-> as]

Singles ==
    [name : {0, 1},
     binding : {"", "agent_input_digest", "agent_output_digest", "effect.request_digest",
                "effect.response_digest", "timestamp"},
     content : MCContents \cup {Absent},
     state : {"present", "purged", "never_retained", "lost"},
     sum : {"", "sha of 1", "sha of none", "malformed"}]
Pairs == {Artifact, [Artifact EXCEPT !.content = "{ 1 }"],
          [Artifact EXCEPT !.name = 2], [Artifact EXCEPT !.sum = "sha of 2"],
          Note, [Note EXCEPT !.content = ""], Missing,
          [Artifact EXCEPT !.state = "purged"], Nested,
          [Artifact EXCEPT !.content = "{2}"]}

MCOffers ==
    {RecordOf("id", Capsule, Envelope, <<a>>) : a \in Singles}
    \cup {RecordOf("id", Capsule, Envelope, <<a, b>>) : a, b \in Pairs}
    \cup {RecordOf("id", Capsule, Envelope, <<Note, Missing, Artifact>>),
          RecordOf("id", Capsule, Envelope, <<>>),
          RecordOf("malformed", [Capsule EXCEPT !.computes = "malformed"],
                 Envelope, <<>>)}
    \cup {RecordOf("id", c, e, as) :
             c \in Capsules, e \in Envelopes,
             as \in {<<>>, <<Artifact>>, <<Note>>, <<[Artifact EXCEPT !.sum = "sha of 2"]>>}}
=============================================================================
