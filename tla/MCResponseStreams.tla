-------------------------- MODULE MCResponseStreams --------------------------
EXTENDS ResponseStreams

\* One item of every kind, two tool calls, and a tool call beside another item.
MCPlans == {<<"message">>, <<"web_search_call">>, <<"image_generation_call">>,
            <<"function_call", "custom_tool_call">>,
            <<"message", "function_call">>, <<"function_call", "message">>,
            <<"reasoning", "function_call">>, <<"reasoning", "reasoning">>,
            <<"reasoning", "message">>, <<"web_search_call", "function_call">>,
            <<"image_generation_call", "image_generation_call">>}
MCItemIds == <<"item_1", "item_2">>
MCCallIds == <<"call_1", "call_2">>
=============================================================================
