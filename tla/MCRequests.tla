----------------------------- MODULE MCRequests -----------------------------
(***************************************************************************)
(* Serving requests, and the parts it is built from that share no state    *)
(* with it: the translations, the descriptor chain and the reading of a    *)
(* directory.  An initial state says which one a behaviour is about; the   *)
(* others rest in one of their initial states.                             *)
(***************************************************************************)
EXTENDS Requests, Conversions, ReadDir, DescriptorChain

VARIABLE part

MCPrefixed == try_from(<< <<"map", <<>>, <<"user", "virtiofsd">> >> >>)

MCPlain ==
  [os |-> "linux", readonly |-> FALSE, xattr |-> TRUE, xattrmap |-> <<>>, idmap |-> <<>>, killpriv_v2 |-> TRUE,
   posix_acl |-> "auto", security_label |-> "auto", writeback |-> TRUE, announce_submounts |-> TRUE,
   readdirplus |-> TRUE, allow_mmap |-> TRUE]

MCMapped ==
  [MCPlain EXCEPT !.xattrmap = MCPrefixed, !.posix_acl = "never", !.writeback = FALSE,
                  !.idmap = << [prefix |-> "map", from |-> 1, to |-> 2, count |-> 1] >>]

MCStrict == [MCPlain EXCEPT !.posix_acl = "always", !.security_label = "always", !.killpriv_v2 = FALSE]

MCConfigs == {MCPlain, MCMapped, MCStrict, [MCMapped EXCEPT !.readonly = TRUE],
              [MCPlain EXCEPT !.readonly = TRUE, !.os = "macos", !.xattr = FALSE]}

MCAll == {"WRITEBACK_CACHE", "SUBMOUNTS", "HANDLE_KILLPRIV_V2", "POSIX_ACL", "DONT_MASK", "SETXATTR_EXT",
          "SECURITY_CTX", "CREATE_SUPP_GROUP", "DO_READDIRPLUS", "READDIRPLUS_AUTO", "DIRECT_IO_ALLOW_MMAP", "INIT_EXT"}
MCScripts ==
  { <<>>,
    << [op |-> "lookup", name |-> 1], [op |-> "opendir", ino |-> RootDir, flags |-> {"read"}] >>,
    << [op |-> "lookup", name |-> 1],
       [op |-> "open", ino |-> CHOOSE i \in Files : TRUE, kill_priv |-> FALSE, flags |-> {"write"}] >> }

MCKernels == {{}, MCAll, MCAll \ {"INIT_EXT"}}
-----------------------------------------------------------------------------
MCRestRequests == config = MCPlain /\ script = <<>>
MCRestDir == hostOs = "linux" /\ ~bigCookies /\ present = {}
MCRestChain == total = 0 /\ Len(consumers[1].buffers) = 1
MCRestSample == [kind |-> "none"]

MCInit ==
  /\ part \in {"serve", "convert", "chain", "dir"}
  /\ RequestsInit /\ (part # "serve" => MCRestRequests)
  /\ DirInit /\ (part # "dir" => MCRestDir)
  /\ ChainInit /\ (part # "chain" => MCRestChain)
  /\ IF part = "convert" THEN sample \in XattrSamples \cup IdSamples \cup FlagSamples ELSE sample = MCRestSample

Serve == part = "serve" /\ RequestsNext /\ UNCHANGED << dirVars, chainVars, sample, part >>
List == part = "dir" /\ DirNext /\ UNCHANGED << requestVars, chainVars, sample, part >>
Chain == part = "chain" /\ ChainNext /\ UNCHANGED << requestVars, dirVars, sample, part >>

MCSpec == MCInit /\ [][Serve \/ List \/ Chain]_<< requestVars, dirVars, chainVars, sample, part >>
=============================================================================
