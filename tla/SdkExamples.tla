----------------------------- MODULE SdkExamples -----------------------------
(***************************************************************************)
(* The seven C programs in training/sdk/examples.  Each is a sequence of   *)
(* calls of the SDK; it is run against an IEC that may go down, come back  *)
(* and answer late, and works on what the calls leave on the heap.         *)
(*                                                                         *)
(* The SDK, the IEC, AM and the user who authorises a pairing are external *)
(* and modelled from how the programs call the SDK and from the contract   *)
(* in libiecclient.h.                                                      *)
(***************************************************************************)
EXTENDS Naturals, Sequences

VARIABLES
    up,         \* the IEC serves requests
    example,    \* the program that runs or has run last
    at,         \* which of its calls is next, 0 when it has ended
    request,    \* the request that the SDK waits for
    ptr,        \* what the pointers of the program hold
    misused,    \* history: a pointer without an answer was used or freed
    result,     \* main's "result": an error, as at first, or not
    status,     \* the exit status, an error or not
    registered, \* AM: the device of the program is registered
    code        \* AM: the user code of the device

program == <<example, at, request, ptr, misused, result, status>>
am      == <<registered, code>>
vars    == <<up, program, am>>

Pointers == {"answer", "first", "second", "tokens"}

----------------------------------------------------------------------------
(* main of each program: its calls; what the pointers it declares hold     *)
(* ("wild" is not initialised); those it gets the keys of the answer into; *)
(* those it frees when the answer is no good, and when it has been used.   *)
Program(calls, declared, keys, onFailure, onSuccess) ==
    [calls |-> calls, declared |-> declared, keys |-> keys,
     onFailure |-> onFailure, onSuccess |-> onSuccess]

Device == <<"attributes", "initialise", "register">>

init_sdk_static  == Program(<<"initialise">>, "null", {}, {}, {})
init_sdk_dynamic ==
    Program(<<"attributes", "initialise">>, "null", {}, {}, {})
register_device  == Program(Device, "null", {}, {}, {})

get_device_tokens ==
    Program(Device \o <<"device_tokens", "extract">>, "wild",
            {"first", "second"}, {}, {})

(* The optional "minimum" is read after the configuration has been freed:  *)
(* the SDK keeps what it has parsed.                                       *)
get_device_configuration ==
    Program(Device \o <<"device_configuration", "extract">>, "wild",
            {}, {"answer"}, {"answer"})

(* Mutant: a failed extraction frees what was to be extracted, too. *)
custom_command_frees_all ==
    Program(Device \o <<"device_custom_command", "extract">>, "wild",
            {"first"}, {"answer", "first"}, {"answer", "first"})

run_device_custom_command ==
    Program(Device \o <<"device_custom_command", "extract">>, "wild",
            {"first"}, {}, {"answer", "first"})

get_user_tokens ==
    Program(Device \o <<"user_code", "extract", "user_tokens", "print">>,
            "null", {"first", "second"}, {"answer"},
            {"answer", "first", "second"})

Examples == {"init_sdk_static", "init_sdk_dynamic", "register_device",
             "get_device_tokens", "get_device_configuration",
             "run_device_custom_command", "get_user_tokens"}

MainOf(e) ==
    CASE e = "init_sdk_static"           -> init_sdk_static
      [] e = "init_sdk_dynamic"          -> init_sdk_dynamic
      [] e = "register_device"           -> register_device
      [] e = "get_device_tokens"         -> get_device_tokens
      [] e = "get_device_configuration"  -> get_device_configuration
      [] e = "run_device_custom_command" -> run_device_custom_command
      [] e = "get_user_tokens"           -> get_user_tokens

Main == MainOf(example)

DeviceRequests == {"device_tokens", "device_configuration",
                   "device_custom_command", "user_code", "user_tokens"}
Requests       == {"initialise", "register"} \cup DeviceRequests

TypeOK ==
    /\ up \in BOOLEAN
    /\ example \in Examples
    /\ at \in 0..Len(Main.calls)
    /\ request \in {"none", "sent", "good", "bad"}
    /\ ptr \in [Pointers -> {"null", "wild", "live", "freed"}]
    /\ misused \in BOOLEAN
    /\ result \in {"error", "good"} /\ status \in {"error", "good"}
    /\ registered \in BOOLEAN
    /\ code \in {"none", "pending", "authorised", "expired"}

Init ==
    /\ up \in BOOLEAN
    /\ example = "init_sdk_static" /\ at = 0 /\ request = "none"
    /\ ptr = [v \in Pointers |-> "null"] /\ misused = FALSE
    /\ result = "error" /\ status = "error"
    /\ registered = FALSE /\ code = "none"

----------------------------------------------------------------------------
(* A program is started when none runs; its device may be known to AM. *)
Run(e) ==
    /\ at = 0
    /\ example' = e /\ at' = 1 /\ request' = "none"
    /\ ptr' = [v \in Pointers |-> MainOf(e).declared]
    /\ result' = "error" /\ status' = "error"
    /\ registered' \in BOOLEAN /\ code' = "none"
    /\ UNCHANGED misused

At(call) == at # 0 /\ Main.calls[at] = call

Exit(s) == at' = 0 /\ status' = s

(* Mutant: the end of main is missed. *)
AdvanceTooFar == at' = at + 1 /\ UNCHANGED status

(* On to the next call; falling off the end of main is a success. *)
Advance ==
    IF at = Len(Main.calls) THEN Exit("good")
                            ELSE at' = at + 1 /\ UNCHANGED status

(* The nine iec_set_attribute; on an error main returns "result". *)
SetAttributes(ok) ==
    /\ At("attributes")
    /\ IF ok THEN Advance ELSE Exit(result)
    /\ UNCHANGED <<example, request, ptr, misused, result, am>>

Send ==
    /\ \E c \in Requests : At(c)
    /\ request = "none" /\ request' = "sent"
    /\ UNCHANGED <<example, at, ptr, misused, result, status, am>>

(* Which pointer a request leaves its answer in. *)
Out == IF At("user_tokens") THEN "tokens" ELSE "answer"

(* Mutant: the return value of a request is not looked at. *)
ReturnUnchecked ==
    /\ request \in {"good", "bad"}
    /\ request' = "none"
    /\ result' = IF request = "good" THEN "good" ELSE "error"
    /\ Advance
    /\ ptr' = IF request = "good" /\ \E c \in DeviceRequests : At(c)
              THEN [ptr EXCEPT ![Out] = "live"] ELSE ptr
    /\ UNCHANGED <<example, misused, am>>

Return ==
    /\ request \in {"good", "bad"}
    /\ request' = "none"
    /\ result' = IF request = "good" THEN "good" ELSE "error"
    /\ IF request = "good" THEN Advance ELSE Exit("error")
    /\ ptr' = IF request = "good" /\ \E c \in DeviceRequests : At(c)
              THEN [ptr EXCEPT ![Out] = "live"] ELSE ptr
    /\ UNCHANGED <<example, misused, am>>

(* The message timeout of the SDK.  iec_initialise blocks until the IEC is *)
(* ready, and iec_user_tokens as long as the code is pending and there is  *)
(* an IEC to ask.                                                          *)
Timeout ==
    /\ request # "none" /\ ~At("initialise")
    /\ At("user_tokens") => code # "pending" \/ ~up
    /\ request' = "none" /\ result' = "error" /\ Exit("error")
    /\ UNCHANGED <<example, ptr, misused, am>>

(* A pointer may be used while it holds an answer, and freed then or when  *)
(* it is null.                                                             *)
Touch(p, used, freed) ==
    /\ misused' = (misused \/ (\E v \in used : p[v] # "live")
                           \/ (\E v \in freed : p[v] \in {"wild", "freed"}))
    /\ ptr' = [v \in Pointers |-> IF v \in freed THEN "freed" ELSE p[v]]

(* iec_json_parse and the iec_json_get_string of the keys, the first that  *)
(* fails being the last that is called.  "got" holds "answer" when the     *)
(* answer could be parsed, and the pointers whose keys were found.         *)
ExtractThen(got, onError) ==
    LET p == [v \in Pointers |-> IF v \in got \cap Main.keys
                                 THEN "live" ELSE ptr[v]]
    IN  /\ At("extract")
        /\ "second" \in got => "first" \in got
        /\ "first" \in got => "answer" \in got
        /\ IF got = Main.keys \cup {"answer"}
           THEN Touch(p, got, Main.onSuccess) /\ Advance
           ELSE Touch(p, {"answer"}, Main.onFailure) /\ Exit(onError)
        /\ UNCHANGED <<example, request, result, am>>

(* Mutant: main returns "result", good since the request, in place of -1. *)
ExtractFailsGood(got) == ExtractThen(got, result)

Extract(got) == ExtractThen(got, "error")

(* The user tokens are printed and freed. *)
PrintTokens ==
    /\ At("print")
    /\ Touch(ptr, {"tokens"}, {"tokens"})
    /\ Advance
    /\ UNCHANGED <<example, request, result, am>>

Steps == \/ \E ok \in BOOLEAN : SetAttributes(ok)
         \/ Send \/ Return \/ PrintTokens
         \/ \E got \in SUBSET (Main.keys \cup {"answer"}) : Extract(got)

----------------------------------------------------------------------------
(* The IEC, AM and the user (external). *)

(* A request is served while the IEC is up, whether its program still      *)
(* waits when the answer comes or not; a device that is not registered and *)
(* a code that is not authorised are refused.                              *)
Entitled == /\ (\E c \in DeviceRequests : At(c)) => registered
            /\ At("user_tokens") => code = "authorised"

Serve(ok) ==
    /\ up /\ request = "sent"
    /\ At("user_tokens") => code # "pending"
    /\ ok => Entitled
    /\ request' = IF ok THEN "good" ELSE "bad"
    /\ registered' = (registered \/ (ok /\ At("register")))
    /\ code' = IF ok /\ At("user_code") THEN "pending" ELSE code
    /\ UNCHANGED <<example, at, ptr, misused, result, status>>

Authorise ==
    /\ code = "pending" /\ code' = "authorised"
    /\ UNCHANGED <<program, registered>>

CodeExpires ==
    /\ code \in {"pending", "authorised"} /\ code' = "expired"
    /\ UNCHANGED <<program, registered>>

Next == \/ Steps \/ Timeout \/ Authorise \/ CodeExpires
        \/ \E e \in Examples : Run(e)
        \/ \E ok \in BOOLEAN : Serve(ok)

(* The IEC goes up and down as it likes; Training says how. *)
Spec == Init /\ [][(Next /\ UNCHANGED up) \/ UNCHANGED <<program, am>>]_vars

----------------------------------------------------------------------------
(* No program reads or frees what the SDK has not given it, on any path of *)
(* failures: most pointers are not initialised, a second key may be        *)
(* missing when the first was found, and what is freed depends on where it *)
(* failed (the blocks after iec_json_parse in the seven programs).         *)
AnswersOnly == ~misused

(* A program that ends with status 0 has done all that it is about: AM has *)
(* registered its device and every answer that it prints has come, also    *)
(* when the IEC went down and came back in between (each "return result",  *)
(* "return -1" and end of main).                                           *)
GoodMeansDone ==
    at = 0 /\ status = "good" =>
        /\ "register" \in {Main.calls[n] : n \in 1..Len(Main.calls)} =>
               registered
        /\ \A v \in Main.keys \cup Main.onSuccess : ptr[v] \in {"live", "freed"}
        /\ example = "get_user_tokens" => ptr["tokens"] = "freed"
==============================================================================
