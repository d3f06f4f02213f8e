---------------------------- MODULE GogocConfig ----------------------------
(***************************************************************************)
(* The configuration of the gogoCLIENT: the library gogoc-config, which    *)
(* validates NAME=VALUE pairs, writes them to a file and reads them back,  *)
(* and tspReadConfigFile, which turns an accepted file into the client's   *)
(* tConf.  Maiccu's gogocAdapter writes the file with the same library     *)
(* just before it launches the client.                                     *)
(*                                                                         *)
(* A configuration is a function from the names it defines to values.  A   *)
(* free text is represented by what the library can tell about it: "ok" is *)
(* well formed, "pad" has outer blanks, "blank" holds nothing but blanks,  *)
(* "bad" has characters the field refuses and "long" exceeds its limit.    *)
(* A number is represented by its digits, a choice by its word; "" is an   *)
(* empty value, which the library does not tell from a missing one.        *)
(***************************************************************************)
EXTENDS Integers, Sequences, TLC

Free == {"", "ok"}
YesNo == {"", "yes", "no"}

(* The digits the models use and the value strtol gives them. *)
Num == ("" :> 0) @@ ("0" :> 0) @@ ("1" :> 1) @@ ("3" :> 3) @@ ("4" :> 4)
       @@ ("16" :> 16) @@ ("30" :> 30) @@ ("32" :> 32) @@ ("64" :> 64)
       @@ ("128" :> 128) @@ ("129" :> 129) @@ ("300" :> 300)
       @@ ("3600" :> 3600) @@ ("3601" :> 3601) @@ ("65600" :> 65600) @@ ("x" :> 0)

Digits == DOMAIN Num \ {"", "x"}

(* (short)strtol(...): the prefix length is validated after a cast to 16 bits. *)
Short(n) == IF n % 65536 < 32768 THEN n % 65536 ELSE (n % 65536) - 65536

(***************************************************************************)
(* What each field accepts, in the order of gogocvalidation.cc.            *)
(***************************************************************************)
ValidIdentity ==
  ("userid" :> {"", "ok", "pad", "blank"}) @@ ("passwd" :> {"", "ok", "pad", "blank"})
  @@ ("server" :> Free)

ValidHost ==
  ("host_type" :> {"", "host", "router"})
  @@ ("prefixlen" :> {""} \cup {d \in Digits : Short(Num[d]) \in 1..128})
  @@ ("if_prefix" :> Free) @@ ("dns_server" :> Free) @@ ("gogoc_dir" :> Free)

ValidRetry ==
  ("auth_method" :> {"", "anonymous", "any", "digest-md5", "plain", "passdss-3des-1"})
  @@ ("auto_retry_connect" :> YesNo)
  @@ ("retry_delay" :> {""} \cup {d \in Digits : Num[d] \in 0..3600})
  @@ ("retry_delay_max" :> {""} \cup {d \in Digits : Num[d] \in 0..3600})
  @@ ("keepalive" :> YesNo) @@ ("keepalive_interval" :> {""} \cup Digits)

ValidTunnel ==
  ("tunnel_mode" :> {"", "v6anyv4", "v6v4", "v6udpv4", "v4v6", "dslite"})
  @@ ("if_tunnel_v6v4" :> Free) @@ ("if_tunnel_v6udpv4" :> Free)
  @@ ("if_tunnel_v4v6" :> Free) @@ ("client_v4" :> Free \cup {"auto"})
  @@ ("dslite_server" :> Free) @@ ("dslite_client" :> Free)
  @@ ("client_v6" :> Free \cup {"auto"})

(* The template is the one field that must be present. *)
ValidFiles ==
  ("template" :> {"freebsd", "netbsd", "linux", "windows", "darwin", "cisco",
                  "sunos", "openbsd", "openwrt", "gogocpe"})
  @@ ("proxy_client" :> YesNo) @@ ("broker_list" :> Free \cup {"anon", "list"})
  @@ ("last_server" :> Free) @@ ("always_use_same_server" :> YesNo)

(* The log level is not checked for digits: any other word counts as 0. *)
ValidLog ==
  [d \in {"log_console", "log_stderr", "log_syslog", "log_file"} |->
     {v \in DOMAIN Num : Num[v] \in 0..3}]
  @@ ("log_filename" :> Free) @@ ("log_rotation" :> YesNo)
  @@ ("log_rotation_size" :> {"", "16", "32", "128"}) @@ ("log_rotation_delete" :> YesNo)
  @@ ("syslog_facility" :> {"", "USER", "LOCAL0"})

ValidHaccess ==
  ("haccess_proxy_enabled" :> YesNo) @@ ("haccess_web_enabled" :> YesNo)
  @@ ("haccess_document_root" :> Free)

Valid == ValidIdentity @@ ValidHost @@ ValidRetry @@ ValidTunnel @@ ValidFiles
         @@ ValidLog @@ ValidHaccess

Fields == DOMAIN Valid

(***************************************************************************)
(* The accessors of GOGOCConfig: a getter pushes a default for an empty    *)
(* value, a setter validates and refuses with an exception.                *)
(***************************************************************************)
DfltHost == ("host_type" :> "host") @@ ("prefixlen" :> "64")

DfltRetry ==
  ("auth_method" :> "any") @@ ("auto_retry_connect" :> "yes") @@ ("retry_delay" :> "30")
  @@ ("retry_delay_max" :> "300") @@ ("keepalive" :> "yes") @@ ("keepalive_interval" :> "30")

DfltTunnel ==
  ("tunnel_mode" :> "v6anyv4") @@ ("client_v4" :> "auto") @@ ("client_v6" :> "auto")
  @@ ("dslite_server" :> "ok") @@ ("dslite_client" :> "ok")

DfltFiles ==
  ("proxy_client" :> "no") @@ ("broker_list" :> "list") @@ ("last_server" :> "ok")
  @@ ("always_use_same_server" :> "no")

DfltLog ==
  ("log_stderr" :> "1") @@ ("log_console" :> "0") @@ ("log_syslog" :> "0")
  @@ ("log_file" :> "0") @@ ("log_filename" :> "ok") @@ ("log_rotation" :> "yes")
  @@ ("log_rotation_size" :> "32") @@ ("log_rotation_delete" :> "no")
  @@ ("syslog_facility" :> "USER")

DfltHaccess == ("haccess_proxy_enabled" :> "no") @@ ("haccess_web_enabled" :> "no")

Dflt == DfltHost @@ DfltRetry @@ DfltTunnel @@ DfltFiles @@ DfltLog @@ DfltHaccess
        @@ [f \in Fields |-> ""]

GetVariableValue(c, f) == IF f \in DOMAIN c THEN c[f] ELSE ""

Get(c, f) ==
  LET v == GetVariableValue(c, f) IN IF v = "" THEN Dflt[f] ELSE v

(***************************************************************************)
(* Validation of a whole configuration.                                    *)
(***************************************************************************)
(* The fields ValidateConfigData hands to their validation routine.        *)
Validated == Fields \ {"auto_retry_connect"}

(* The rules that relate two fields, on the values the getters return.     *)
CrossAuth(c) == Get(c, "auth_method") # "anonymous" => Get(c, "passwd") # ""

CrossKeepAlive(c) ==
  /\ Get(c, "proxy_client") = "yes" => Get(c, "tunnel_mode") # "v6udpv4" /\ Get(c, "keepalive") # "yes"
  /\ Get(c, "keepalive") = "yes" => Num[Get(c, "keepalive_interval")] # 0

(* For any other mode an assertion fails, unless it is compiled out. *)
CrossMode(c) ==
  LET mode == Get(c, "tunnel_mode")
  IN  /\ mode \in {"v6anyv4", "v6v4"} => Get(c, "if_tunnel_v6v4") # ""
      /\ mode \in {"v6anyv4", "v6udpv4"} => Get(c, "if_tunnel_v6udpv4") # ""
      /\ mode = "v4v6" => Get(c, "if_tunnel_v4v6") # ""

CrossLimits(c) ==
  /\ Get(c, "host_type") = "router" => Get(c, "if_prefix") # ""
  /\ Num[Get(c, "retry_delay")] <= Num[Get(c, "retry_delay_max")]

ValidateConfigData(c) ==
  /\ \A f \in Validated : GetVariableValue(c, f) \in Valid[f]
  /\ CrossAuth(c) /\ CrossKeepAlive(c) /\ CrossMode(c) /\ CrossLimits(c)

(***************************************************************************)
(* The file: names and values are written as they are and trimmed when     *)
(* they are read.  Comments and empty lines are left out.                  *)
(***************************************************************************)
NoFile == [none |-> TRUE]

Trim(v) == CASE v = "pad" -> "ok" [] v = "blank" -> "" [] OTHER -> v

ReadConfigurationData(file) == [f \in DOMAIN file |-> Trim(file[f])]

(* The file is truncated when it is opened and written line by line, in    *)
(* the order of m_FullFileData; the stream is never asked whether that     *)
(* failed.  The files that may be left.                                    *)
WriteConfigurationData(c, order) ==
  {[f \in DOMAIN c \cap {order[i] : i \in 1..n} |-> c[f]] : n \in 0..Len(order)}

(* GOGOCConfig::Save: the configuration is written only when it is valid. *)
SaveOk(c) == ValidateConfigData(c)

(* initialize(): create, load and validate; a missing file is an error. *)
LoadOk(file) == file # NoFile /\ ValidateConfigData(ReadConfigurationData(file))

(***************************************************************************)
(* tspReadConfigFile: the C wrappers turn the accepted values into the     *)
(* strings, integers and Booleans of tConf.                                *)
(***************************************************************************)
AsInt(c, f) == Num[Get(c, f)]
AsBool(c, f) == Get(c, f) = "yes"
Strs(c, fs) == [f \in fs |-> Get(c, f)]

ConfAccount(c) == Strs(c, {"userid", "passwd", "server"})

ConfHost(c) ==
  Strs(c, {"host_type", "if_prefix", "dns_server", "gogoc_dir", "auth_method"})
  @@ ("prefixlen" :> AsInt(c, "prefixlen"))

ConfRetry(c) ==
  [f \in {"auto_retry_connect", "keepalive"} |-> AsBool(c, f)]
  @@ [f \in {"retry_delay", "retry_delay_max", "keepalive_interval"} |-> AsInt(c, f)]

(* A mode the client does not know leaves tunnel_mode as memset left it. *)
ConfMode(c) ==
  IF Get(c, "tunnel_mode") = "dslite" THEN "unset" ELSE Get(c, "tunnel_mode")

ConfTunnel(c) ==
  Strs(c, {"if_tunnel_v6v4", "if_tunnel_v6udpv4", "if_tunnel_v4v6", "client_v4",
           "client_v6", "template"})
  @@ ("tunnel_mode" :> ConfMode(c)) @@ ("proxy_client" :> AsBool(c, "proxy_client"))

ConfFiles(c) ==
  Strs(c, {"broker_list", "last_server"})
  @@ ("always_use_same_server" :> AsBool(c, "always_use_same_server"))
  @@ [f \in DOMAIN ValidLog \ {"log_filename", "log_rotation"} |-> Get(c, f)]

ConfLog(c) ==
  Strs(c, {"log_filename", "haccess_document_root"})
  @@ [f \in {"log_rotation", "haccess_web_enabled", "haccess_proxy_enabled"} |-> AsBool(c, f)]

Conf(c) == ConfAccount(c) @@ ConfHost(c) @@ ConfRetry(c) @@ ConfTunnel(c)
           @@ ConfFiles(c) @@ ConfLog(c)

NoConf == [refused |-> TRUE]

(* The server may be left out of a valid file, but the client needs one. *)
tspReadConfigFile(file) ==
  LET c == ReadConfigurationData(file)
  IN  IF LoadOk(file) /\ Get(c, "server") # "" THEN Conf(c) ELSE NoConf
=============================================================================
