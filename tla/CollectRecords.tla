--------------------------- MODULE CollectRecords ----------------------------
(***************************************************************************)
(* The walks of the gcc plugin (collect/gcc/c.cc) over the records of the  *)
(* compiler, in the order it saves what they lead to.  It is the build     *)
(* with gcc 9 or later, without COLLECT_MORE and without                   *)
(* GCC_CONTAIN_FREE_SSANAMES.  A record whose walk depends on its contents *)
(* has one entry per case: ssa_USE and ssa_ROOT (an immediate use, and the *)
(* head of the list of uses), a binding of a label or of anything else.    *)
(***************************************************************************)
EXTENDS RecordWalk

CollectVectors ==
    [vec_tree        |-> Each("elem", "tree"),
     vec_constructor |-> EachIn("elem", "constructor_elt"),
     constructor_elt |-> T(<<"index", "value">>)]

CollectScopes ==
    [c_scope |-> P("outer", "c_scope") \o P("outer_function", "c_scope")
                 \o P("bindings", "c_binding") \o T(<<"blocks", "blocks_last">>),
     c_spot_bindings |-> P("scope", "c_scope")
                         \o P("bindings_in_scope", "c_binding"),
     c_goto_bindings |-> L(<<"loc">>) \o In("c_spot_bindings"),
     vec_c_goto_bindings |-> Each("elem", "c_goto_bindings"),
     c_label_vars |-> P("shadowed", "c_label_vars") \o In("c_spot_bindings")
                      \o P("decls_in_scope", "vec_tree")
                      \o P("gotos", "vec_c_goto_bindings")]
    @@ [b \in {"binding_TYPE", "binding_LABEL"} |->
           L(<<"locus">>) \o T(<<"decl">>)
           \o (IF b = "binding_TYPE" THEN T(<<"type">>)
               ELSE P("label", "c_label_vars"))
           \o T(<<"id">>) \o P("prev", "c_binding") \o P("shadowed", "c_binding")]

CollectNames ==
    [ht_identifier |-> B("str"), cpp_hashnode |-> In("ht_identifier"),
     location |-> B("file"), bytes |-> Leaf]

CollectLang ==
    [c_common_identifier |-> In("common") \o In("cpp_hashnode"),
     real_value |-> Leaf, c_lang_decl |-> Leaf,
     sorted_fields_type |-> Each("elts", "tree"),
     c_lang_type |-> P("s", "sorted_fields_type")
                     \o T(<<"enum_min", "enum_max", "objc_info">>),
     symtab_node |-> T(<<"decl">>) \o P("next", "symtab_node")
                     \o P("previous", "symtab_node")
                     \o P("next_sharing_asm_name", "symtab_node")
                     \o P("previous_sharing_asm_name", "symtab_node")
                     \o P("same_comdat_group", "symtab_node")
                     \o T(<<"alias_target", "x_comdat_group">>)]

CollectSwitches ==
    [stmt_tree_s |-> P("x_cur_stmt_list", "vec_tree"),
     c_language_function |-> In("stmt_tree_s") \o P("local_typedefs", "vec_tree"),
     splay_tree_node_s |-> P("left", "splay_tree_node_s")
                           \o P("right", "splay_tree_node_s"),
     splay_tree_s |-> P("root", "splay_tree_node_s"),
     c_switch |-> T(<<"switch_expr", "orig_type">>) \o P("cases", "splay_tree_s")
                  \o P("bindings", "c_spot_bindings") \o P("next", "c_switch")]

CollectArgInfo ==
    [c_arg_tag |-> T(<<"id", "type">>),
     vec_c_arg_tag |-> EachIn("elem", "c_arg_tag"),
     c_arg_info |-> T(<<"parms">>) \o P("tags", "vec_c_arg_tag")
                    \o T(<<"types", "others", "pending_sizes">>),
     language_function |-> In("c_language_function")
                           \o T(<<"x_break_label", "x_cont_label">>)
                           \o P("x_switch_stack", "c_switch")
                           \o P("arg_info", "c_arg_info")]

CollectGimpleOps ==
    [gimple_base |-> L(<<"location">>) \o P("bb", "basic_block")
                     \o G(<<"next", "prev">>),
     use_optype_d |-> P("next", "use_optype_d") \o In("ssa_USE"),
     gs_with_ops_base |-> In("gimple_base") \o P("use_ops", "use_optype_d"),
     gs_ops |-> Each("ops", "tree"),
     gs_with_ops |-> In("gs_with_ops_base") \o In("gs_ops"),
     gs_with_mem_ops_base |-> In("gs_with_ops_base") \o T(<<"vdef", "vuse">>),
     gs_with_mem_ops |-> In("gs_with_mem_ops_base") \o In("gs_ops"),
     gcall |-> In("gs_with_mem_ops_base") \o T(<<"fntype">>) \o In("gs_ops"),
     gcall_INTERNAL |-> In("gs_with_mem_ops_base") \o In("gs_ops"),
     gs_omp |-> In("gimple_base") \o G(<<"body">>)]

CollectGimpleBodies ==
    [gbind |-> In("gimple_base") \o T(<<"vars", "block">>) \o G(<<"body">>),
     gcatch |-> In("gimple_base") \o T(<<"types">>) \o G(<<"handler">>),
     geh_filter |-> In("gimple_base") \o T(<<"types">>) \o G(<<"failure">>),
     geh_else |-> In("gimple_base") \o G(<<"n_body", "e_body">>),
     geh_mnt |-> In("gimple_base") \o T(<<"fndecl">>),
     phi_arg_d |-> In("ssa_USE") \o T(<<"def">>),
     gphi |-> In("gimple_base") \o T(<<"result">>) \o EachIn("args", "phi_arg_d")]

CollectGimpleEh ==
    [gtry |-> In("gimple_base") \o G(<<"eval", "cleanup">>),
     gs_wce |-> In("gimple_base") \o G(<<"cleanup">>),
     gasm |-> In("gs_with_mem_ops_base") \o B("string") \o In("gs_ops")]
    @@ Same({"gs_eh_ctrl"}, In("gimple_base"))
    @@ Same({"gresx", "geh_dispatch"}, In("gs_eh_ctrl"))

CollectOmp ==
    [gomp_critical |-> In("gs_omp") \o T(<<"clauses", "name">>),
     gomp_for_iter |-> T(<<"index", "initial", "final", "incr">>),
     gomp_for |-> In("gs_omp") \o T(<<"clauses">>) \o P("iter", "gomp_for_iter")
                  \o G(<<"pre_body">>),
     gs_omp_parallel_layout |->
         In("gs_omp") \o T(<<"clauses", "child_fn", "data_arg">>),
     gomp_task |-> In("gs_omp_taskreg")
                   \o T(<<"copy_fn", "arg_size", "arg_align">>),
     gomp_sections |-> In("gs_omp") \o T(<<"clauses", "control">>)]
    @@ Same({"gs_omp_taskreg", "gomp_target"}, In("gs_omp_parallel_layout"))
    @@ Same({"gomp_parallel"}, In("gs_omp_taskreg"))

CollectOmpLayouts ==
    [gomp_continue |-> In("gimple_base") \o T(<<"control_def", "control_use">>),
     gs_omp_single_layout |-> In("gs_omp") \o T(<<"clauses">>),
     gomp_atomic_load |-> In("gimple_base") \o T(<<"rhs", "lhs">>),
     gs_omp_atomic_store_layout |-> In("gimple_base") \o T(<<"val">>),
     gtransaction |-> In("gs_with_mem_ops_base") \o G(<<"body">>)
                      \o T(<<"label_norm", "label_uninst", "label_over">>)]
    @@ Same({"gomp_single", "gomp_teams", "gomp_ordered"},
            In("gs_omp_single_layout"))
    @@ Same({"gomp_atomic_store", "gs_omp_return"},
            In("gs_omp_atomic_store_layout"))

CollectGimpleTuples ==
    Same({"gcond", "gdebug", "ggoto", "glabel", "gswitch"}, In("gs_with_ops"))
    @@ Same({"gassign", "greturn"}, In("gs_with_mem_ops"))

(* do_gimple_seq: the record of each gimple code.                          *)
CollectGimpleCodes ==
    [GIMPLE_ASM |-> "gasm", GIMPLE_ASSIGN |-> "gassign",
     GIMPLE_CALL |-> "gcall", GIMPLE_CALL_INTERNAL |-> "gcall_INTERNAL",
     GIMPLE_COND |-> "gcond", GIMPLE_LABEL |-> "glabel",
     GIMPLE_GOTO |-> "ggoto", GIMPLE_NOP |-> "gimple_base",
     GIMPLE_RETURN |-> "greturn", GIMPLE_SWITCH |-> "gswitch",
     GIMPLE_PHI |-> "gphi"]

CollectOmpCodes ==
    [GIMPLE_OMP_PARALLEL |-> "gomp_parallel", GIMPLE_OMP_TASK |-> "gomp_task",
     GIMPLE_OMP_ATOMIC_LOAD |-> "gomp_atomic_load",
     GIMPLE_OMP_ATOMIC_STORE |-> "gomp_atomic_store",
     GIMPLE_OMP_FOR |-> "gomp_for", GIMPLE_OMP_CONTINUE |-> "gomp_continue",
     GIMPLE_OMP_SINGLE |-> "gomp_single", GIMPLE_OMP_TARGET |-> "gomp_target",
     GIMPLE_OMP_TEAMS |-> "gomp_teams", GIMPLE_OMP_RETURN |-> "gs_omp_return",
     GIMPLE_OMP_SECTIONS |-> "gomp_sections",
     GIMPLE_OMP_SECTIONS_SWITCH |-> "gimple_base",
     GIMPLE_OMP_ORDERED |-> "gomp_ordered",
     GIMPLE_OMP_CRITICAL |-> "gomp_critical"]
    @@ Same({"GIMPLE_OMP_MASTER", "GIMPLE_OMP_TASKGROUP", "GIMPLE_OMP_SECTION",
             "GIMPLE_OMP_GRID_BODY"}, "gs_omp")

CollectGimple ==
    [GIMPLE_BIND |-> "gbind", GIMPLE_TRY |-> "gtry", GIMPLE_CATCH |-> "gcatch",
     GIMPLE_EH_FILTER |-> "geh_filter", GIMPLE_EH_MUST_NOT_THROW |-> "geh_mnt",
     GIMPLE_EH_ELSE |-> "geh_else", GIMPLE_RESX |-> "gresx",
     GIMPLE_EH_DISPATCH |-> "geh_dispatch", GIMPLE_DEBUG |-> "gdebug",
     GIMPLE_PREDICT |-> "gimple_base", GIMPLE_TRANSACTION |-> "gtransaction"]
    @@ CollectGimpleCodes @@ CollectOmpCodes

CollectEdges ==
    [edge |-> L(<<"goto_locus">>) \o P("src", "basic_block")
              \o P("dest", "basic_block") \o G(<<"insns">>),
     vec_edge |-> Each("elem", "edge"),
     nb_iter_bound |-> G(<<"stmt">>) \o P("next", "nb_iter_bound"),
     control_iv |-> T(<<"base", "step">>) \o P("next", "control_iv"),
     loop_exit |-> P("e", "edge") \o P("prev", "loop_exit")
                   \o P("next", "loop_exit") \o P("next_e", "loop_exit"),
     niter_desc |-> P("out_edge", "edge") \o P("in_edge", "edge")]

CollectBlocks ==
    [loop |-> P("header", "basic_block") \o P("latch", "basic_block")
              \o P("superloops", "vec_loop") \o P("inner", "loop")
              \o P("next", "loop") \o T(<<"nb_iterations", "simduid">>)
              \o P("bounds", "nb_iter_bound") \o P("control_ivs", "control_iv")
              \o P("exits", "loop_exit") \o P("simple_loop_desc", "niter_desc")
              \o P("former_header", "basic_block"),
     vec_loop |-> Each("elem", "loop"),
     basic_block |-> P("preds", "vec_edge") \o P("succs", "vec_edge")
                     \o P("loop_father", "loop") \o P("prev_bb", "basic_block")
                     \o P("next_bb", "basic_block") \o G(<<"seq", "phi_nodes">>),
     vec_basic_block |-> Each("elem", "basic_block"),
     cfg |-> P("x_entry_block_ptr", "basic_block")
             \o P("x_exit_block_ptr", "basic_block")
             \o P("x_basic_block_info", "vec_basic_block")
             \o P("x_label_to_block_map", "vec_basic_block"),
     ssa_operands |-> Leaf]

CollectFunctions ==
    [gimple_df |-> P("ssa_names", "vec_tree") \o T(<<"vop">>)
                   \o In("ssa_operands"),
     loops |-> P("larray", "vec_loop") \o P("tree_root", "loop"),
     histogram_value |-> B("counters") \o P("fun", "function") \o T(<<"value">>)
                         \o G(<<"stmt">>) \o P("next", "histogram_value"),
     histogram_values |-> B("entries") \o Each("entries", "histogram_value"),
     function |-> L(<<"function_start_locus", "function_end_locus">>)
                  \o P("language", "language_function")
                  \o T(<<"decl", "static_chain_decl", "nonlocal_goto_save_area">>)
                  \o P("local_decls", "vec_tree") \o G(<<"gimple_body">>)
                  \o P("cfg", "cfg") \o P("gimple_df", "gimple_df")
                  \o P("x_current_loops", "loops")
                  \o P("value_histograms", "histogram_values"),
     statement_list_node |-> P("prev", "statement_list_node")
                             \o P("next", "statement_list_node")
                             \o T(<<"stmt">>)]

(* do_tree: the record of each tree code, or of a class of codes.  An      *)
(* SSA_NAME of a pointer carries a ptr_info, any other a range_info.       *)
CollectTree ==
    [INTEGER_CST |-> "int_cst", TREE_BINFO |-> "binfo", TREE_VEC |-> "vec",
     VECTOR_CST |-> "vector", STRING_CST |-> "string",
     OMP_CLAUSE |-> "omp_clause", FIELD_DECL |-> "field_decl",
     PARM_DECL |-> "parm_decl", VAR_DECL |-> "var_decl",
     LABEL_DECL |-> "label_decl", RESULT_DECL |-> "result_decl",
     CONST_DECL |-> "const_decl", TYPE_DECL |-> "type_decl",
     FUNCTION_DECL |-> "function_decl", DEBUG_EXPR_DECL |-> "decl_with_rtl",
     TRANSLATION_UNIT_DECL |-> "translation_unit_decl",
     tcc_type |-> "type_non_common", VOID_CST |-> "typed",
     REAL_CST |-> "real_cst", FIXED_CST |-> "fixed_cst",
     COMPLEX_CST |-> "complex", IDENTIFIER_NODE |-> "c_lang_identifier",
     TREE_LIST |-> "list", SSA_NAME_POINTER |-> "ssa_name_PTR",
     SSA_NAME |-> "ssa_name_RANGE", STATEMENT_LIST |-> "statement_list",
     BLOCK |-> "block", CONSTRUCTOR |-> "constructor",
     OPTIMIZATION_NODE |-> "optimization_option",
     TARGET_OPTION_NODE |-> "target_option"]
    @@ Same({"NAMESPACE_DECL", "IMPORTED_DECL", "NAMELIST_DECL"},
            "decl_non_common")
    @@ Same({"tcc_vl_exp", "tcc_reference", "tcc_expression", "tcc_statement",
             "tcc_comparison", "tcc_unary", "tcc_binary"}, "exp")
    @@ Same({"ERROR_MARK", "PLACEHOLDER_EXPR"}, "common")

CollectTreeBase ==
    [base |-> Leaf, typed |-> In("base") \o T(<<"type">>),
     string |-> In("typed"), int_cst |-> In("typed"),
     real_cst |-> In("typed") \o P("real_cst_ptr", "real_value"),
     common |-> In("typed") \o T(<<"chain">>),
     identifier |-> In("common") \o In("ht_identifier"),
     c_lang_identifier |-> In("c_common_identifier"),
     constructor |-> In("typed") \o P("elts", "vec_constructor"),
     statement_list |-> In("typed") \o P("head", "statement_list_node")
                        \o P("tail", "statement_list_node")]

CollectExprs ==
    [block |-> L(<<"locus", "end_locus">>) \o In("base")
               \o T(<<"chain", "vars">>) \o P("nonlocalized_vars", "vec_tree")
               \o T(<<"subblocks", "supercontext", "abstract_origin",
                      "fragment_origin", "fragment_chain">>),
     exp |-> L(<<"locus">>) \o In("typed") \o Each("operands", "tree"),
     list |-> In("common") \o T(<<"purpose", "value">>),
     type_with_lang_specific |-> In("type_common")
                                 \o P("lang_specific", "c_lang_type"),
     type_common |-> In("common")
                     \o T(<<"size", "size_unit", "attributes", "pointer_to",
                            "reference_to", "canonical", "next_variant",
                            "main_variant", "context", "name">>),
     type_non_common |-> In("type_with_lang_specific")
                         \o T(<<"values", "minval", "maxval", "lang_1">>)]

CollectDecls ==
    [decl_minimal |-> L(<<"locus">>) \o In("common") \o T(<<"name", "context">>),
     decl_common |-> In("decl_minimal")
                     \o T(<<"size", "size_unit", "initial", "attributes",
                            "abstract_origin">>)
                     \o P("lang_specific", "c_lang_decl"),
     field_decl |-> In("decl_common")
                    \o T(<<"offset", "bit_field_type", "qualifier",
                           "bit_offset", "fcontext">>),
     decl_with_vis |-> In("decl_with_rtl") \o T(<<"assembler_name">>)
                       \o P("symtab_node", "symtab_node"),
     var_decl |-> In("decl_with_vis")]
    @@ Same({"decl_with_rtl"}, In("decl_common"))
    @@ Same({"label_decl", "result_decl", "parm_decl"}, In("decl_with_rtl"))

CollectDeclKinds ==
    [decl_non_common |-> In("decl_with_vis") \o T(<<"result">>),
     type_decl |-> In("decl_non_common"), const_decl |-> In("decl_common"),
     translation_unit_decl |-> In("decl_common") \o B("language"),
     function_decl |-> In("decl_non_common") \o P("f", "function")
                       \o T(<<"arguments", "personality",
                              "function_specific_target",
                              "function_specific_optimization",
                              "saved_tree", "vindex">>),
     vec |-> In("common") \o Each("a", "tree")]

CollectSsa ==
    [tree_p |-> T(<<"tree">>),
     ssa_USE |-> P("prev", "ssa_use_operand") \o P("next", "ssa_use_operand")
                 \o G(<<"loc">>) \o P("use", "tree_p"),
     ssa_ROOT |-> P("prev", "ssa_use_operand") \o P("next", "ssa_use_operand")
                  \o T(<<"loc">>),
     ssa_name_PTR |-> In("typed") \o T(<<"var">>) \o G(<<"def_stmt">>)
                      \o P("info", "ptr_info_def") \o In("ssa_ROOT"),
     ssa_name_RANGE |-> In("typed") \o T(<<"var">>) \o G(<<"def_stmt">>)
                        \o P("info", "range_info_def") \o In("ssa_ROOT")]
    @@ Same({"fixed_cst", "vector", "complex"}, Leaf)

CollectOptions ==
    [optimization_option |-> In("base")]
    @@ Same({"binfo", "omp_clause", "target_option", "ptr_info_def",
             "range_info_def"}, Leaf)

(* What a field of each kind may lead to.                                  *)
CollectPointees(target) ==
    CASE target = "tree" -> DOMAIN CollectTree
      [] target = "gimple" -> DOMAIN CollectGimple
      [] target = "c_binding" -> {"binding_TYPE", "binding_LABEL"}
      [] target = "ssa_use_operand" -> {"ssa_USE", "ssa_ROOT"}
      [] OTHER -> {target}

CollectTable ==
    CollectVectors @@ CollectScopes @@ CollectNames @@ CollectLang
    @@ CollectSwitches @@ CollectArgInfo @@ CollectGimpleOps
    @@ CollectGimpleBodies @@ CollectGimpleEh @@ CollectOmp
    @@ CollectOmpLayouts @@ CollectGimpleTuples @@ CollectEdges
    @@ CollectBlocks @@ CollectFunctions @@ CollectTreeBase @@ CollectExprs
    @@ CollectDecls @@ CollectDeclKinds @@ CollectSsa @@ CollectOptions
=============================================================================
